---- MODULE Spec2Model ----
(***************************************************************************)
(* NSV (newline-separated values) codec of nsv-rust: src/src/lib.rs and    *)
(* src/src/util.rs.  Byte buffers are sequences of integers 0..255, 1-based *)
(* in TLA+; the code's 0-based positions `pos`, `start`, `end` are kept as  *)
(* they are in the source and shifted by one only where a byte is read.     *)
(* A Rust panic (slice out of range, usize underflow) is recorded in a      *)
(* `panic` flag of the scanner state in place of the value it would abort.  *)
(***************************************************************************)
EXTENDS Integers, Sequences, FiniteSets, TLC

VARIABLES
    data,       \* the caller's document: Vec<Vec<Vec<u8>>> given to encode_bytes
    cell,       \* the caller's cell: the &[u8] given to escape_bytes
    input,      \* the byte buffer handed to decode_*/check/unescape_bytes
    via,        \* how `input` was produced: "raw", "escape_bytes", "encode_bytes"
    num_threads,\* rayon::current_num_threads() of the process
    index,      \* the LazyNsv / ProjectedNsv the caller holds, or NoIndex
    pool,       \* the chunk workers of a decode_bytes_parallel call in flight, or NoPool
    op,         \* name of the last completed call, "init" before any
    args,       \* arguments of the last call besides the buffer
    result      \* value returned by the last call

vars == <<data, cell, input, via, num_threads, index, pool, op, args, result>>

\* ---------------------------------------------------------------- bytes
LF == 10
BACKSLASH == 92
LOWER_N == 110
HIGH_BYTE == 255
LEAD_BYTE == 233
CONT_BYTE == 128

\* The byte alphabet of the model: the two structural bytes, the escape
\* letter, and one opaque payload byte (above 0x7F, so not valid UTF-8).
Bytes == {LF, BACKSLASH, LOWER_N, HIGH_BYTE}

\* ---------------------------------------------------------------- bounds
MaxLen == 5          \* longest raw byte buffer / cell drawn in Init
MaxDocSize == 6      \* documents drawn in Init: bytes + cells + rows <= this
MaxThreads == 4      \* largest worker count drawn in Init
MaxCols == 2         \* longest column list passed to a projection
MaxCol == 2          \* largest column index passed to a projection
MaxProjLen == 4      \* longest raw byte buffer handed to a projection
MaxLookupLen == 3    \* longest raw byte buffer indexed for single lookups
MaxTextLen == 5      \* longest text drawn in Init
MaxTextDocSize == 6     \* text documents drawn in Init: bytes + cells + rows <= this
MaxPrefixLen == 4       \* bytes of the buffer another buffer is appended to
MaxSuffixLen == 3       \* bytes of an appended buffer
MaxPartSize == 4        \* rows, cells and cell bytes of each of two documents encoded back to back

RECURSIVE SeqsUpTo(_, _)
SeqsUpTo(S, n) ==
    IF n = 0 THEN {<<>>}
    ELSE LET shorter == SeqsUpTo(S, n - 1)
         IN  shorter \cup {Append(s, x) : s \in {t \in shorter : Len(t) = n - 1}, x \in S}

ByteSeqs == SeqsUpTo(Bytes, MaxLen)

\* ---------------------------------------------------------------- slices
\* s.contains(&b)
Contains(s, b) == \E i \in 1..Len(s) : s[i] = b

\* &s[a..b] is in range (otherwise the index expression panics)
SliceOk(s, a, b) == a <= b /\ b <= Len(s)

\* Slice losing the last byte of the range
Slice_one_short(s, a, b) == SubSeq(s, a + 1, b - 1)

\* &s[a..b], 0-based half-open
Slice(s, a, b) == SubSeq(s, a + 1, b)

\* ---------------------------------------------------------------- escaper
\* unescape_step dropping the backslash of an unknown escape
unescape_step_drop_unknown(st, b) ==
    IF st.escaped THEN
        [out |-> st.out \o (IF b = LOWER_N THEN <<LF>> ELSE <<b>>), escaped |-> FALSE]
    ELSE IF b = BACKSLASH THEN [st EXCEPT !.escaped = TRUE]
    ELSE [st EXCEPT !.out = Append(@, b)]

\* body of the `for &b in s` loop of unescape_bytes
unescape_step(st, b) ==
    IF st.escaped THEN
        [out |-> st.out \o (IF b = LOWER_N THEN <<LF>>
                            ELSE IF b = BACKSLASH THEN <<BACKSLASH>>
                            ELSE <<BACKSLASH, b>>),
         escaped |-> FALSE]
    ELSE IF b = BACKSLASH THEN [st EXCEPT !.escaped = TRUE]
    ELSE [st EXCEPT !.out = Append(@, b)]

RECURSIVE unescape_loop(_, _, _)
unescape_loop(s, i, st) ==
    IF i > Len(s) THEN st ELSE unescape_loop(s, i + 1, unescape_step(st, s[i]))

unescape_bytes(s) ==
    IF s = <<BACKSLASH>> THEN <<>>
    ELSE IF ~Contains(s, BACKSLASH) THEN s
    ELSE unescape_loop(s, 1, [out |-> <<>>, escaped |-> FALSE]).out

\* escape_byte with the backslash left single
escape_byte_lf_only(b) ==
    IF b = LF THEN <<BACKSLASH, LOWER_N>> ELSE <<b>>

\* body of the `match b` of escape_bytes
escape_byte(b) ==
    IF b = BACKSLASH THEN <<BACKSLASH, BACKSLASH>>
    ELSE IF b = LF THEN <<BACKSLASH, LOWER_N>>
    ELSE <<b>>

RECURSIVE escape_loop(_, _, _)
escape_loop(s, i, out) ==
    IF i > Len(s) THEN out ELSE escape_loop(s, i + 1, out \o escape_byte(s[i]))

\* escape_bytes without the empty-cell token
escape_bytes_no_empty_token(s) ==
    IF Contains(s, LF) \/ Contains(s, BACKSLASH) THEN escape_loop(s, 1, <<>>) ELSE s

escape_bytes(s) ==
    IF s = <<>> THEN <<BACKSLASH>>
    ELSE IF Contains(s, LF) \/ Contains(s, BACKSLASH) THEN escape_loop(s, 1, <<>>)
    ELSE s

\* ---------------------------------------------------------------- decoder
\* decode_step pushing a row at a row terminator only when it has cells
decode_step_skip_empty_rows(inp, st, pos) ==
    IF st.panic \/ inp[pos + 1] # LF THEN st
    ELSE IF pos > st.start THEN
        [st EXCEPT !.row = Append(@, unescape_bytes(Slice(inp, st.start, pos))),
                   !.start = pos + 1]
    ELSE IF st.row = <<>> THEN [st EXCEPT !.start = pos + 1]
    ELSE [st EXCEPT !.data = Append(@, st.row), !.row = <<>>, !.start = pos + 1]

\* decode_step pushing the row at a row terminator without starting a new one
decode_step_keep_row(inp, st, pos) ==
    IF st.panic \/ inp[pos + 1] # LF THEN st
    ELSE IF pos > st.start THEN
        [st EXCEPT !.row = Append(@, unescape_bytes(Slice(inp, st.start, pos))),
                   !.start = pos + 1]
    ELSE [st EXCEPT !.data = Append(@, st.row), !.start = pos + 1]

\* body of the `for (pos, &b) in input.iter().enumerate()` loop of
\* decode_bytes_sequential
decode_step(inp, st, pos) ==
    IF st.panic \/ inp[pos + 1] # LF THEN st
    ELSE IF pos > st.start THEN
        IF SliceOk(inp, st.start, pos)
        THEN [st EXCEPT !.row = Append(@, unescape_bytes(Slice(inp, st.start, pos))),
                        !.start = pos + 1]
        ELSE [st EXCEPT !.panic = TRUE]
    ELSE [st EXCEPT !.data = Append(@, st.row), !.row = <<>>, !.start = pos + 1]

\* decode_loop skipping the LF bytes the buffer starts with
RECURSIVE decode_loop_trim_leading(_, _, _)
decode_loop_trim_leading(inp, pos, st) ==
    IF pos >= Len(inp) THEN st
    ELSE IF st.data = <<>> /\ st.row = <<>> /\ pos = st.start /\ inp[pos + 1] = LF
    THEN decode_loop_trim_leading(inp, pos + 1, [st EXCEPT !.start = pos + 1])
    ELSE decode_loop_trim_leading(inp, pos + 1, decode_step(inp, st, pos))

RECURSIVE decode_loop(_, _, _)
decode_loop(inp, pos, st) ==
    IF pos >= Len(inp) THEN st ELSE decode_loop(inp, pos + 1, decode_step(inp, st, pos))

\* decode_finish dropping a cell that no LF terminates
decode_finish_drop_tail(inp, st) ==
    IF st.panic THEN st
    ELSE IF st.row # <<>> THEN [st EXCEPT !.data = Append(@, st.row)]
    ELSE st

\* the two `if`s after the loop of decode_bytes_sequential
decode_finish(inp, st) ==
    LET tail == IF st.start < Len(inp)
                THEN [st EXCEPT !.row = Append(@, unescape_bytes(Slice(inp, st.start, Len(inp))))]
                ELSE st
    IN  IF st.panic THEN st
        ELSE IF tail.row # <<>> THEN [tail EXCEPT !.data = Append(@, tail.row)]
        ELSE tail

decode_sequential_run(inp) ==
    decode_finish(inp, decode_loop(inp, 0, [data |-> <<>>, row |-> <<>>, start |-> 0, panic |-> FALSE]))

\* Returned value of a call: `panicked` when the call aborts instead.
Returned(v) == [panicked |-> FALSE, value |-> v]
Panicked == [panicked |-> TRUE, value |-> <<>>]

decode_bytes_sequential(inp) ==
    LET st == decode_sequential_run(inp)
    IN  IF st.panic THEN Panicked ELSE Returned(st.data)

\* ---------------------------------------------------------------- encoder
\* encode_row without the row terminator
RECURSIVE encode_row_unterminated(_, _, _)
encode_row_unterminated(row, i, out) ==
    IF i > Len(row) THEN out
    ELSE encode_row_unterminated(row, i + 1, Append(out \o escape_bytes(row[i]), LF))

RECURSIVE encode_row(_, _, _)
encode_row(row, i, out) ==
    IF i > Len(row) THEN Append(out, LF)
    ELSE encode_row(row, i + 1, Append(out \o escape_bytes(row[i]), LF))

RECURSIVE encode_rows(_, _, _)
encode_rows(d, i, out) ==
    IF i > Len(d) THEN out ELSE encode_rows(d, i + 1, encode_row(d[i], 1, out))

encode_bytes(d) == encode_rows(d, 1, <<>>)

\* ---------------------------------------------------------------- options
\* Option<T>: Some(v) / None
Some(v) == [some |-> TRUE, value |-> v]
None == [some |-> FALSE, value |-> <<>>]

\* ---------------------------------------------------------------- chunk planner
PARALLEL_THRESHOLD == 64 * 1024

\* memmem::Finder::new(b"\n\n").find(hay): offset of the first LF LF, if any
find_row_terminator(hay) ==
    LET hits == {k \in 0..(Len(hay) - 2) : hay[k + 1] = LF /\ hay[k + 2] = LF}
    IN  IF hits = {} THEN None
        ELSE Some(CHOOSE k \in hits : \A j \in hits : k <= j)

\* split_step cutting one byte past the start of the terminator, between its LFs
split_step_inside_terminator(inp, chunk_size, st, i) ==
    LET nominal == i * chunk_size
        found == find_row_terminator(Slice(inp, nominal, Len(inp)))
        split == nominal + found.value + 1
    IN  IF found.some /\ split < Len(inp)
        THEN [st EXCEPT !.splits = Append(@, split)]
        ELSE st

\* body of the `for i in 1..num_threads` loop that collects split points;
\* st = [splits, panic]
split_step(inp, chunk_size, st, i) ==
    LET nominal == i * chunk_size
    IN  IF st.panic THEN st
        ELSE IF ~SliceOk(inp, nominal, Len(inp)) THEN [st EXCEPT !.panic = TRUE]
        ELSE LET found == find_row_terminator(Slice(inp, nominal, Len(inp)))
                 split == nominal + found.value + 2
             IN  IF found.some /\ split < Len(inp)
                 THEN [st EXCEPT !.splits = Append(@, split)]
                 ELSE st

RECURSIVE split_loop(_, _, _, _, _)
split_loop(inp, chunk_size, nthreads, i, st) ==
    IF i >= nthreads THEN st
    ELSE split_loop(inp, chunk_size, nthreads, i + 1, split_step(inp, chunk_size, st, i))

\* dedup leaving the list as it was pushed
dedup_keep_all(s) == s

\* Vec::dedup: drops every element equal to its predecessor
RECURSIVE dedup(_)
dedup(s) ==
    IF Len(s) <= 1 THEN s
    ELSE LET front == dedup(SubSeq(s, 1, Len(s) - 1))
         IN  IF s[Len(s)] = s[Len(s) - 1] THEN front ELSE Append(front, s[Len(s)])

\* splits.push(0); the loop; splits.push(input.len()); splits.dedup()
split_points(inp, nthreads) ==
    LET st == split_loop(inp, Len(inp) \div nthreads, nthreads, 1,
                         [splits |-> <<0>>, panic |-> FALSE])
    IN  [st EXCEPT !.splits = dedup(Append(@, Len(inp)))]

\* splits.windows(2).map(|w| &input[w[0]..w[1]]): chunk k (1-based) of the plan
chunk_of(inp, splits, k) == Slice(inp, splits[k], splits[k + 1])

ChunksOk(inp, splits) ==
    \A k \in 1..(Len(splits) - 1) : SliceOk(inp, splits[k], splits[k + 1])

\* `for chunk_rows in chunk_results { result.extend(chunk_rows) }`
RECURSIVE concat_in_split_order(_, _, _)
concat_in_split_order(chunk_results, k, out) ==
    IF k > Len(chunk_results) THEN out
    ELSE concat_in_split_order(chunk_results, k + 1, out \o chunk_results[k])

decode_bytes_parallel(inp, nthreads) ==
    LET chunk_size == Len(inp) \div nthreads
        plan == split_points(inp, nthreads)
        splits == plan.splits
        chunk_results == [k \in 1..(Len(splits) - 1) |->
                             decode_bytes_sequential(chunk_of(inp, splits, k))]
    IN  IF chunk_size = 0 THEN decode_bytes_sequential(inp)
        ELSE IF plan.panic THEN Panicked
        ELSE IF Len(splits) <= 2 THEN decode_bytes_sequential(inp)
        ELSE IF ~ChunksOk(inp, splits) THEN Panicked
        ELSE IF \E k \in 1..Len(chunk_results) : chunk_results[k].panicked THEN Panicked
        ELSE Returned(concat_in_split_order([k \in 1..Len(chunk_results) |-> chunk_results[k].value],
                                            1, <<>>))

\* decode_bytes; nthreads is rayon::current_num_threads() of the process
decode_bytes(inp, nthreads) ==
    IF inp = <<>> THEN Returned(<<>>)
    ELSE IF Len(inp) < PARALLEL_THRESHOLD THEN decode_bytes_sequential(inp)
    ELSE decode_bytes_parallel(inp, nthreads)

\* ---------------------------------------------------------------- lazy index
CellSpan(start, end) == [start |-> start, end |-> end]

\* index_step recording a cell's span with its terminating LF
index_step_span_through_lf(inp, st, pos) ==
    IF inp[pos + 1] # LF THEN st
    ELSE IF pos > st.start
         THEN [st EXCEPT !.row = Append(@, CellSpan(st.start, pos + 1)), !.start = pos + 1]
         ELSE [st EXCEPT !.data = Append(@, st.row), !.row = <<>>, !.start = pos + 1]

\* body of the scan loop of index_sequential; st = [data, row, start]
index_step(inp, st, pos) ==
    IF inp[pos + 1] # LF THEN st
    ELSE IF pos > st.start
         THEN [st EXCEPT !.row = Append(@, CellSpan(st.start, pos)), !.start = pos + 1]
         ELSE [st EXCEPT !.data = Append(@, st.row), !.row = <<>>, !.start = pos + 1]

RECURSIVE index_loop(_, _, _)
index_loop(inp, pos, st) ==
    IF pos >= Len(inp) THEN st ELSE index_loop(inp, pos + 1, index_step(inp, st, pos))

\* index_finish dropping an unterminated trailing cell
index_finish_strict(inp, st) ==
    IF st.row # <<>> THEN [st EXCEPT !.data = Append(@, st.row)] ELSE st

\* the two `if`s after the loop of index_sequential
index_finish(inp, st) ==
    LET tail == IF st.start < Len(inp)
                THEN [st EXCEPT !.row = Append(@, CellSpan(st.start, Len(inp)))]
                ELSE st
    IN  IF tail.row # <<>> THEN [tail EXCEPT !.data = Append(@, tail.row)] ELSE tail

index_sequential(inp) ==
    index_finish(inp, index_loop(inp, 0, [data |-> <<>>, row |-> <<>>, start |-> 0])).data

\* the span shift of index_parallel's workers
shift_row(row, base_offset) ==
    [c \in 1..Len(row) |-> CellSpan(row[c].start + base_offset, row[c].end + base_offset)]

index_parallel(inp, nthreads) ==
    LET chunk_size == Len(inp) \div nthreads
        splits == split_points(inp, nthreads).splits
        chunk_results == [k \in 1..(Len(splits) - 1) |->
                             LET local == index_sequential(chunk_of(inp, splits, k))
                             IN  [r \in 1..Len(local) |-> shift_row(local[r], splits[k])]]
    IN  IF chunk_size = 0 \/ Len(splits) <= 2 THEN index_sequential(inp)
        ELSE concat_in_split_order(chunk_results, 1, <<>>)

\* struct LazyNsv { input, rows }
LazyNsv(inp, rows) == [kind |-> "LazyNsv", input |-> inp, rows |-> rows]

decode_lazy(inp, nthreads) ==
    IF inp = <<>> THEN LazyNsv(inp, <<>>)
    ELSE IF Len(inp) < PARALLEL_THRESHOLD THEN LazyNsv(inp, index_sequential(inp))
    ELSE LazyNsv(inp, index_parallel(inp, nthreads))

LazyNsv_row_count(self) == Len(self.rows)

LazyNsv_col_count(self, row) ==
    IF row < Len(self.rows) THEN Len(self.rows[row + 1]) ELSE 0

\* self.rows.get(row)?.get(col)?
LazyNsv_span(self, row, col) ==
    IF row < Len(self.rows) /\ col < Len(self.rows[row + 1])
    THEN Some(self.rows[row + 1][col + 1])
    ELSE None

\* LazyNsv::get_raw: Returned(Option<&[u8]>), or the slice expression panics
LazyNsv_get_raw(self, row, col) ==
    LET span == LazyNsv_span(self, row, col)
    IN  IF ~span.some THEN Returned(None)
        ELSE IF ~SliceOk(self.input, span.value.start, span.value.end) THEN Panicked
        ELSE Returned(Some(Slice(self.input, span.value.start, span.value.end)))

\* LazyNsv::get: Returned(Option<Vec<u8>>)
LazyNsv_get(self, row, col) ==
    LET span == LazyNsv_span(self, row, col)
    IN  IF ~span.some THEN Returned(None)
        ELSE IF ~SliceOk(self.input, span.value.start, span.value.end) THEN Panicked
        ELSE Returned(Some(unescape_bytes(Slice(self.input, span.value.start, span.value.end))))

\* project_entry handing out the raw bytes without unescaping them
project_entry_raw(self, row, ci) ==
    IF ci < Len(row) THEN Slice(self.input, row[ci + 1].start, row[ci + 1].end) ELSE <<>>

\* the inner closure of LazyNsv::project: one entry for column ci of a row
project_entry(self, row, ci) ==
    IF ci < Len(row)
    THEN unescape_bytes(Slice(self.input, row[ci + 1].start, row[ci + 1].end))
    ELSE <<>>

LazyNsv_project(self, columns) ==
    [r \in 1..Len(self.rows) |->
        [j \in 1..Len(columns) |-> project_entry(self, self.rows[r], columns[j])]]

\* ---------------------------------------------------------------- projection
\* usize::MAX marks "column not projected" in the column map.  The model's
\* integers are narrower than usize; the marker is the largest of them.
USIZE_MAX == 2147483647

EMPTY_SPAN == CellSpan(0, 0)

\* columns.iter().copied().max().unwrap_or(0)
max_column(columns) ==
    IF columns = <<>> THEN 0
    ELSE CHOOSE m \in {columns[j] : j \in 1..Len(columns)} :
             \A j \in 1..Len(columns) : columns[j] <= m

\* `max_col + 1` in usize: with overflow checks the addition panics at
\* usize::MAX, without them it wraps to 0
add_one(n) ==
    [value |-> IF n = USIZE_MAX THEN 0 ELSE n + 1, overflow |-> n = USIZE_MAX]

\* col_map_fill keeping the first position of a column that occurs again
RECURSIVE col_map_fill_first_wins(_, _, _)
col_map_fill_first_wins(columns, j, st) ==
    IF j > Len(columns) \/ st.panic THEN st
    ELSE IF columns[j] >= Len(st.col_map) THEN [st EXCEPT !.panic = TRUE]
    ELSE IF st.col_map[columns[j] + 1] # USIZE_MAX THEN col_map_fill_first_wins(columns, j + 1, st)
    ELSE col_map_fill_first_wins(columns, j + 1, [st EXCEPT !.col_map[columns[j] + 1] = j - 1])

\* `for (proj_idx, &orig_col) in columns.iter().enumerate() { col_map[orig_col] = proj_idx }`;
\* st = [col_map, panic], the store is bounds-checked
RECURSIVE col_map_fill(_, _, _)
col_map_fill(columns, j, st) ==
    IF j > Len(columns) \/ st.panic THEN st
    ELSE IF columns[j] >= Len(st.col_map) THEN [st EXCEPT !.panic = TRUE]
    ELSE col_map_fill(columns, j + 1, [st EXCEPT !.col_map[columns[j] + 1] = j - 1])

\* build_col_map: (col_map, max_col); col_map[c + 1] is the code's col_map[c].
\* overflow: `max_col + 1` exceeded usize::MAX, a panic where overflow is checked;
\* panic: where it is not, the table has the wrapped length and a store panicked.
build_col_map(columns) ==
    LET max_col == max_column(columns)
        len == add_one(max_col)
        filled == col_map_fill(columns, 1,
                               [col_map |-> [c \in 1..len.value |-> USIZE_MAX], panic |-> FALSE])
    IN  [col_map |-> filled.col_map, max_col |-> max_col,
         overflow |-> len.overflow, panic |-> filled.panic]

\* build_col_map did not return: the addition or a store panicked
col_map_panicked(cm) == cm.overflow \/ cm.panic

\* wanted_slot with `col_idx < max_col`: the largest projected column is lost
wanted_slot_below_max(cm, col_idx) ==
    IF col_idx < cm.max_col /\ col_idx < Len(cm.col_map) /\ cm.col_map[col_idx + 1] # USIZE_MAX
    THEN Some(cm.col_map[col_idx + 1])
    ELSE None

\* the nested `if col_idx <= max_col { if let Some(&proj_idx) = col_map.get(col_idx)
\* { if proj_idx != usize::MAX` guard: the slot of column col_idx, or None
wanted_slot(cm, col_idx) ==
    IF col_idx <= cm.max_col /\ col_idx < Len(cm.col_map) /\ cm.col_map[col_idx + 1] # USIZE_MAX
    THEN Some(cm.col_map[col_idx + 1])
    ELSE None

\* spans[row_base + proj_idx] = span, when column col_idx is projected
write_span(cm, st, span) ==
    LET slot == wanted_slot(cm, st.col_idx)
    IN  IF ~slot.some THEN st
        ELSE IF st.row_base + slot.value >= Len(st.spans) THEN [st EXCEPT !.panic = TRUE]
        ELSE [st EXCEPT !.spans[st.row_base + slot.value + 1] = span]

sentinel_row(stride) == [j \in 1..stride |-> EMPTY_SPAN]

\* body of the scan loop of index_projected_sequential;
\* st = [spans, col_idx, start, row_base, panic]
index_projected_step(inp, cm, stride, st, pos) ==
    IF st.panic \/ inp[pos + 1] # LF THEN st
    ELSE IF pos > st.start THEN
        LET w == write_span(cm, st, CellSpan(st.start, pos))
        IN  [w EXCEPT !.col_idx = @ + 1, !.start = pos + 1]
    ELSE [st EXCEPT !.col_idx = 0,
                    !.row_base = Len(st.spans),
                    !.spans = @ \o sentinel_row(stride),
                    !.start = pos + 1]

RECURSIVE index_projected_loop(_, _, _, _, _)
index_projected_loop(inp, cm, stride, pos, st) ==
    IF pos >= Len(inp) THEN st
    ELSE index_projected_loop(inp, cm, stride, pos + 1,
                              index_projected_step(inp, cm, stride, st, pos))

\* index_projected_finish keeping the pre-allocated last row even when unused
index_projected_finish_keep_last(inp, cm, stride, st) ==
    LET tail == IF st.start < Len(inp)
                THEN [write_span(cm, st, CellSpan(st.start, Len(inp))) EXCEPT !.col_idx = @ + 1]
                ELSE st
    IN  [num_rows |-> Len(tail.spans) \div stride, spans |-> tail.spans, panic |-> tail.panic]

\* the code after the loop of index_projected_sequential: the trailing cell,
\* then the row count (dropping the unused pre-allocated last row)
index_projected_finish(inp, cm, stride, st) ==
    LET tail == IF st.start < Len(inp)
                THEN [write_span(cm, st, CellSpan(st.start, Len(inp))) EXCEPT !.col_idx = @ + 1]
                ELSE st
    IN  IF st.panic \/ tail.panic THEN [num_rows |-> 0, spans |-> <<>>, panic |-> TRUE]
        ELSE IF tail.col_idx > 0
        THEN [num_rows |-> Len(tail.spans) \div stride, spans |-> tail.spans, panic |-> FALSE]
        ELSE IF Len(tail.spans) < stride THEN [num_rows |-> 0, spans |-> <<>>, panic |-> TRUE]
        ELSE LET kept == SubSeq(tail.spans, 1, Len(tail.spans) - stride)
             IN  [num_rows |-> Len(kept) \div stride, spans |-> kept, panic |-> FALSE]

index_projected_sequential(inp, cm, stride) ==
    index_projected_finish(inp, cm, stride,
        index_projected_loop(inp, cm, stride, 0,
            [spans |-> sentinel_row(stride), col_idx |-> 0, start |-> 0,
             row_base |-> 0, panic |-> FALSE]))

\* struct ProjectedNsv { input, stride, num_rows, spans }
ProjectedNsv(inp, stride, num_rows, spans) ==
    [kind |-> "ProjectedNsv", input |-> inp, stride |-> stride,
     num_rows |-> num_rows, spans |-> spans]

\* the span shift of index_projected_parallel's workers, moving every span
shift_span_always(span, base_offset) ==
    CellSpan(span.start + base_offset, span.end + base_offset)

\* the span shift of index_projected_parallel's workers
shift_span(span, base_offset) ==
    IF span.start = span.end THEN span
    ELSE CellSpan(span.start + base_offset, span.end + base_offset)

\* chunk_results.iter().map(|(n, _)| n).sum()
RECURSIVE total_rows(_, _)
total_rows(chunk_results, k) ==
    IF k > Len(chunk_results) THEN 0
    ELSE chunk_results[k].num_rows + total_rows(chunk_results, k + 1)

index_projected_parallel(inp, cm, stride, nthreads) ==
    LET chunk_size == Len(inp) \div nthreads
        plan == split_points(inp, nthreads)
        splits == plan.splits
        panicked == [num_rows |-> 0, spans |-> <<>>, panic |-> TRUE]
        chunk_results == [k \in 1..(Len(splits) - 1) |->
                             LET local == index_projected_sequential(chunk_of(inp, splits, k), cm, stride)
                             IN  [local EXCEPT !.spans = [i \in 1..Len(local.spans) |->
                                                             shift_span(local.spans[i], splits[k])]]]
    IN  IF chunk_size = 0 THEN index_projected_sequential(inp, cm, stride)
        ELSE IF plan.panic THEN panicked
        ELSE IF Len(splits) <= 2 THEN index_projected_sequential(inp, cm, stride)
        ELSE IF ~ChunksOk(inp, splits) THEN panicked
        ELSE IF \E k \in 1..Len(chunk_results) : chunk_results[k].panic THEN panicked
        ELSE [num_rows |-> total_rows(chunk_results, 1),
              spans |-> concat_in_split_order([k \in 1..Len(chunk_results) |-> chunk_results[k].spans],
                                              1, <<>>),
              panic |-> FALSE]

\* decode_lazy_projected; nthreads is rayon::current_num_threads() of the process
decode_lazy_projected(inp, columns, nthreads) ==
    LET stride == Len(columns)
        cm == build_col_map(columns)
        ix == IF Len(inp) < PARALLEL_THRESHOLD
              THEN index_projected_sequential(inp, cm, stride)
              ELSE index_projected_parallel(inp, cm, stride, nthreads)
    IN  IF inp = <<>> \/ stride = 0 THEN Returned(ProjectedNsv(inp, stride, 0, <<>>))
        ELSE IF col_map_panicked(cm) \/ ix.panic THEN Panicked
        ELSE Returned(ProjectedNsv(inp, stride, ix.num_rows, ix.spans))

\* ProjectedNsv::get bounded by the flat array alone
ProjectedNsv_get_flat_bound(self, row, proj_col) ==
    IF row * self.stride + proj_col >= Len(self.spans) THEN Returned(None)
    ELSE LET span == self.spans[row * self.stride + proj_col + 1]
         IN  IF span.start = span.end THEN Returned(Some(<<>>))
             ELSE Returned(Some(unescape_bytes(Slice(self.input, span.start, span.end))))

\* ProjectedNsv::get
ProjectedNsv_get(self, row, proj_col) ==
    IF row >= self.num_rows \/ proj_col >= self.stride THEN Returned(None)
    ELSE IF row * self.stride + proj_col >= Len(self.spans) THEN Panicked
    ELSE LET span == self.spans[row * self.stride + proj_col + 1]
         IN  IF span.start = span.end THEN Returned(Some(<<>>))
             ELSE IF ~SliceOk(self.input, span.start, span.end) THEN Panicked
             ELSE Returned(Some(unescape_bytes(Slice(self.input, span.start, span.end))))

\* ProjectedNsv::get_raw
ProjectedNsv_get_raw(self, row, proj_col) ==
    IF row >= self.num_rows \/ proj_col >= self.stride THEN Returned(None)
    ELSE IF row * self.stride + proj_col >= Len(self.spans) THEN Panicked
    ELSE LET span == self.spans[row * self.stride + proj_col + 1]
         IN  IF ~SliceOk(self.input, span.start, span.end) THEN Panicked
             ELSE Returned(Some(Slice(self.input, span.start, span.end)))

\* ---------------------------------------------------------------- projected decode
\* row[proj_idx] = unescape_bytes(&input[start..end]), when column col_idx is projected
write_cell(inp, cm, st, end) ==
    LET slot == wanted_slot(cm, st.col_idx)
    IN  IF ~slot.some THEN st
        ELSE IF ~SliceOk(inp, st.start, end) \/ slot.value >= Len(st.row)
        THEN [st EXCEPT !.panic = TRUE]
        ELSE [st EXCEPT !.row[slot.value + 1] = unescape_bytes(Slice(inp, st.start, end))]

empty_row(stride) == [j \in 1..stride |-> <<>>]

\* body of the scan loop of decode_projected_sequential;
\* st = [data, row, col_idx, start, row_has_cells, panic]
decode_projected_step(inp, cm, stride, st, pos) ==
    IF st.panic \/ inp[pos + 1] # LF THEN st
    ELSE IF pos > st.start THEN
        [write_cell(inp, cm, st, pos) EXCEPT !.col_idx = @ + 1,
                                             !.row_has_cells = TRUE,
                                             !.start = pos + 1]
    ELSE LET pushed == IF st.row_has_cells \/ st.data # <<>> \/ st.col_idx = 0
                       THEN [st EXCEPT !.data = Append(@, st.row), !.row = empty_row(stride)]
                       ELSE st
         IN  [pushed EXCEPT !.col_idx = 0, !.row_has_cells = FALSE, !.start = pos + 1]

RECURSIVE decode_projected_loop(_, _, _, _, _)
decode_projected_loop(inp, cm, stride, pos, st) ==
    IF pos >= Len(inp) THEN st
    ELSE decode_projected_loop(inp, cm, stride, pos + 1,
                               decode_projected_step(inp, cm, stride, st, pos))

\* the trailing cell and the final push of decode_projected_sequential
decode_projected_finish(inp, cm, st) ==
    LET tail == IF st.start < Len(inp)
                THEN [write_cell(inp, cm, st, Len(inp)) EXCEPT !.row_has_cells = TRUE]
                ELSE st
    IN  IF st.panic THEN st
        ELSE IF tail.row_has_cells THEN [tail EXCEPT !.data = Append(@, tail.row)]
        ELSE tail

decode_projected_sequential(inp, columns) ==
    LET cm == build_col_map(columns)
        stride == Len(columns)
        st == decode_projected_finish(inp, cm,
                  decode_projected_loop(inp, cm, stride, 0,
                      [data |-> <<>>, row |-> empty_row(stride), col_idx |-> 0,
                       start |-> 0, row_has_cells |-> FALSE, panic |-> FALSE]))
    IN  IF col_map_panicked(cm) \/ st.panic THEN Panicked ELSE Returned(st.data)

decode_projected_parallel(inp, columns, nthreads) ==
    LET chunk_size == Len(inp) \div nthreads
        plan == split_points(inp, nthreads)
        splits == plan.splits
        chunk_results == [k \in 1..(Len(splits) - 1) |->
                             decode_projected_sequential(chunk_of(inp, splits, k), columns)]
    IN  IF chunk_size = 0 THEN decode_projected_sequential(inp, columns)
        ELSE IF plan.panic THEN Panicked
        ELSE IF Len(splits) <= 2 THEN decode_projected_sequential(inp, columns)
        ELSE IF ~ChunksOk(inp, splits) THEN Panicked
        ELSE IF \E k \in 1..Len(chunk_results) : chunk_results[k].panicked THEN Panicked
        ELSE Returned(concat_in_split_order([k \in 1..Len(chunk_results) |-> chunk_results[k].value],
                                            1, <<>>))

\* decode_bytes_projected scanning the buffer even for an empty column list
decode_bytes_projected_scan_always(inp, columns, nthreads) ==
    IF inp = <<>> THEN Returned(<<>>)
    ELSE IF Len(inp) < PARALLEL_THRESHOLD THEN decode_projected_sequential(inp, columns)
    ELSE decode_projected_parallel(inp, columns, nthreads)

decode_bytes_projected(inp, columns, nthreads) ==
    IF inp = <<>> \/ columns = <<>> THEN Returned(<<>>)
    ELSE IF Len(inp) < PARALLEL_THRESHOLD THEN decode_projected_sequential(inp, columns)
    ELSE decode_projected_parallel(inp, columns, nthreads)

\* ---------------------------------------------------------------- validator
Warning(kind, pos, line, col) == [kind |-> kind, pos |-> pos, line |-> line, col |-> col]
UnknownEscape(b) == <<"UnknownEscape", b>>
DanglingBackslash == <<"DanglingBackslash">>
NoTerminalLf == <<"NoTerminalLf">>

\* escape_warning with the column counted from 0
escape_warning_col_from_zero(st, kind, i) ==
    IF i < 1 \/ i < st.line_start THEN [st EXCEPT !.panic = TRUE]
    ELSE [st EXCEPT !.warnings = Append(@, Warning(kind, i - 1, st.line, i - 1 - st.line_start))]

\* a warning for the backslash before position i; `i - 1` and `i - line_start`
\* are usize subtractions
escape_warning(st, kind, i) ==
    IF i < 1 \/ i < st.line_start THEN [st EXCEPT !.panic = TRUE]
    ELSE [st EXCEPT !.warnings = Append(@, Warning(kind, i - 1, st.line, i - st.line_start))]

\* check_step passing over an escape it does not know without a warning
check_step_unknown_silent(st, i, b) ==
    LET seen == IF st.escaped THEN
                    [(IF b = LF THEN escape_warning(st, DanglingBackslash, i) ELSE st)
                     EXCEPT !.escaped = FALSE]
                ELSE IF b = BACKSLASH THEN [st EXCEPT !.escaped = TRUE]
                ELSE st
    IN  IF st.panic THEN st
        ELSE IF b = LF THEN [seen EXCEPT !.line = @ + 1, !.line_start = i + 1]
        ELSE seen

\* check_step with the line bookkeeping done before the escape handling
check_step_line_first(st, i, b) ==
    LET moved == IF b = LF THEN [st EXCEPT !.line = @ + 1, !.line_start = i + 1] ELSE st
    IN  IF st.panic THEN st
        ELSE IF moved.escaped THEN
            [(IF b = LOWER_N \/ b = BACKSLASH THEN moved
              ELSE IF b = LF THEN escape_warning(moved, DanglingBackslash, i)
              ELSE escape_warning(moved, UnknownEscape(b), i))
             EXCEPT !.escaped = FALSE]
        ELSE IF b = BACKSLASH THEN [moved EXCEPT !.escaped = TRUE]
        ELSE moved

\* body of the `for (i, &b) in input.iter().enumerate()` loop of check;
\* st = [warnings, line, line_start, escaped, panic]
check_step(st, i, b) ==
    LET seen == IF st.escaped THEN
                    [(IF b = LOWER_N \/ b = BACKSLASH THEN st
                      ELSE IF b = LF THEN escape_warning(st, DanglingBackslash, i)
                      ELSE escape_warning(st, UnknownEscape(b), i))
                     EXCEPT !.escaped = FALSE]
                ELSE IF b = BACKSLASH THEN [st EXCEPT !.escaped = TRUE]
                ELSE st
    IN  IF st.panic THEN st
        ELSE IF b = LF THEN [seen EXCEPT !.line = @ + 1, !.line_start = i + 1]
        ELSE seen

\* check_loop looking no further than its first warning
RECURSIVE check_loop_first_warning_only(_, _, _)
check_loop_first_warning_only(inp, i, st) ==
    IF i >= Len(inp) \/ st.warnings # <<>> THEN st
    ELSE check_loop_first_warning_only(inp, i + 1, check_step(st, i, inp[i + 1]))

RECURSIVE check_loop(_, _, _)
check_loop(inp, i, st) ==
    IF i >= Len(inp) THEN st ELSE check_loop(inp, i + 1, check_step(st, i, inp[i + 1]))

\* check_dangling_at_eof reporting nothing at the end of the input
check_dangling_at_eof_silent(inp, st) == st

\* `if escaped { ... }` after the loop of check
check_dangling_at_eof(inp, st) ==
    IF st.panic \/ ~st.escaped THEN st
    ELSE IF Len(inp) < 1 \/ Len(inp) < st.line_start THEN [st EXCEPT !.panic = TRUE]
    ELSE [st EXCEPT !.warnings = Append(@, Warning(DanglingBackslash, Len(inp) - 1, st.line,
                                                   Len(inp) - st.line_start))]

\* check_terminal_lf pointing at the last byte instead of one past it
check_terminal_lf_at_last_byte(inp, st) ==
    IF st.panic \/ st.line_start = Len(inp) THEN st
    ELSE IF Len(inp) < st.line_start THEN [st EXCEPT !.panic = TRUE]
    ELSE [st EXCEPT !.warnings = Append(@, Warning(NoTerminalLf, Len(inp), st.line,
                                                   Len(inp) - st.line_start))]

\* `if line_start != len { ... }` at the end of check
check_terminal_lf(inp, st) ==
    IF st.panic \/ st.line_start = Len(inp) THEN st
    ELSE IF Len(inp) < st.line_start THEN [st EXCEPT !.panic = TRUE]
    ELSE [st EXCEPT !.warnings = Append(@, Warning(NoTerminalLf, Len(inp), st.line,
                                                   Len(inp) - st.line_start + 1))]

check(inp) ==
    LET st == check_terminal_lf(inp, check_dangling_at_eof(inp,
                  check_loop(inp, 0, [warnings |-> <<>>, line |-> 1, line_start |-> 0,
                                      escaped |-> FALSE, panic |-> FALSE])))
    IN  IF inp = <<>> THEN Returned(<<>>)
        ELSE IF st.panic THEN Panicked
        ELSE Returned(st.warnings)

\* ---------------------------------------------------------------- text
\* bytes of a sequence of UTF-8: 0 for a byte that starts no sequence
utf8_char_width(b) ==
    IF b < 128 THEN 1
    ELSE IF b >= 194 /\ b <= 223 THEN 2
    ELSE IF b >= 224 /\ b <= 239 THEN 3
    ELSE IF b >= 240 /\ b <= 244 THEN 4
    ELSE 0

\* the second byte a lead byte admits (no overlong forms, no surrogates,
\* nothing above U+10FFFF)
utf8_second_ok(lead, b) ==
    IF lead = 224 THEN b >= 160 /\ b <= 191
    ELSE IF lead = 237 THEN b >= 128 /\ b <= 159
    ELSE IF lead = 240 THEN b >= 144 /\ b <= 191
    ELSE IF lead = 244 THEN b >= 128 /\ b <= 143
    ELSE b >= 128 /\ b <= 191

\* the validity a str / String promises of its bytes
RECURSIVE is_utf8(_)
is_utf8(s) ==
    IF s = <<>> THEN TRUE
    ELSE LET w == utf8_char_width(s[1])
         IN  /\ w >= 1 /\ w <= Len(s)
             /\ w >= 2 => utf8_second_ok(s[1], s[2])
             /\ \A k \in 3..w : s[k] >= 128 /\ s[k] <= 191
             /\ is_utf8(SubSeq(s, w + 1, Len(s)))

\* a String / &str: its bytes, and whether they are UTF-8; a String made by
\* from_utf8_unchecked from other bytes is undefined behaviour
Str(b) == [bytes |-> b, valid |-> is_utf8(b)]
from_utf8_unchecked(b) == Str(b)
as_bytes(s) == s.bytes
String_new == Str(<<>>)

\* the scalar value of the first char of bytes that are UTF-8
first_char(s) ==
    LET w == utf8_char_width(s[1])
    IN  IF w = 1 THEN s[1]
        ELSE IF w = 2 THEN (s[1] - 192) * 64 + (s[2] - 128)
        ELSE IF w = 3 THEN (s[1] - 224) * 4096 + (s[2] - 128) * 64 + (s[3] - 128)
        ELSE (s[1] - 240) * 262144 + (s[2] - 128) * 4096 + (s[3] - 128) * 64 + (s[4] - 128)

\* s.chars() of a valid string, as scalar values
RECURSIVE chars(_)
chars(s) ==
    IF s = <<>> THEN <<>>
    ELSE <<first_char(s)>> \o chars(SubSeq(s, utf8_char_width(s[1]) + 1, Len(s)))

\* the UTF-8 bytes of a char
char_bytes(c) ==
    IF c < 128 THEN <<c>>
    ELSE IF c < 2048 THEN <<192 + (c \div 64), 128 + (c % 64)>>
    ELSE IF c < 65536 THEN <<224 + (c \div 4096), 128 + ((c \div 64) % 64), 128 + (c % 64)>>
    ELSE <<240 + (c \div 262144), 128 + ((c \div 4096) % 64),
           128 + ((c \div 64) % 64), 128 + (c % 64)>>

\* chars.into_iter().collect::<String>()
RECURSIVE collect_string(_)
collect_string(cs) ==
    IF cs = <<>> THEN <<>> ELSE char_bytes(Head(cs)) \o collect_string(Tail(cs))

\* escape(s) / unescape(s): the byte-level function and an unchecked conversion
escape(s) == from_utf8_unchecked(escape_bytes(as_bytes(s)))
unescape(s) == from_utf8_unchecked(unescape_bytes(as_bytes(s)))

\* decode(s): decode_bytes and an unchecked conversion of every cell
decode(s, nthreads) ==
    LET got == decode_bytes(as_bytes(s), nthreads)
    IN  IF got.panicked THEN Panicked
        ELSE Returned([r \in 1..Len(got.value) |->
                          [c \in 1..Len(got.value[r]) |-> from_utf8_unchecked(got.value[r][c])]])

\* encode(data): as encode_bytes, then String::from_utf8(result).unwrap()
RECURSIVE encode_text_row(_, _, _)
encode_text_row(row, i, out) ==
    IF i > Len(row) THEN Append(out, LF)
    ELSE encode_text_row(row, i + 1, Append(out \o escape_bytes(as_bytes(row[i])), LF))

RECURSIVE encode_text_rows(_, _, _)
encode_text_rows(d, i, out) ==
    IF i > Len(d) THEN out ELSE encode_text_rows(d, i + 1, encode_text_row(d[i], 1, out))

encode(d) ==
    LET out == encode_text_rows(d, 1, <<>>)
    IN  IF is_utf8(out) THEN Returned(Str(out)) ELSE Panicked

\* ---------------------------------------------------------------- util
\* escape_seqseq: map(map(escape))
escape_seqseq(seqseq) ==
    [r \in 1..Len(seqseq) |-> [c \in 1..Len(seqseq[r]) |-> escape(seqseq[r][c])]]

\* unescape_seqseq: map(map(unescape))
unescape_seqseq(seqseq) ==
    [r \in 1..Len(seqseq) |-> [c \in 1..Len(seqseq[r]) |-> unescape(seqseq[r][c])]]

\* spill: every row's items, then the marker
RECURSIVE spill(_, _)
spill(seqseq, marker) ==
    IF seqseq = <<>> THEN <<>>
    ELSE Head(seqseq) \o <<marker>> \o spill(Tail(seqseq), marker)

\* spill_chars: every string's chars, then '\n'
RECURSIVE spill_chars(_)
spill_chars(strings) ==
    IF strings = <<>> THEN <<>>
    ELSE chars(as_bytes(Head(strings))) \o <<LF>> \o spill_chars(Tail(strings))

\* body of the `for item in seq` loop of unspill; st = [seqseq, row]
unspill_step(st, item, marker) ==
    IF item # marker THEN [st EXCEPT !.row = Append(@, item)]
    ELSE [seqseq |-> Append(st.seqseq, st.row), row |-> <<>>]

RECURSIVE unspill_loop(_, _, _, _)
unspill_loop(seq, marker, i, st) ==
    IF i > Len(seq) THEN st
    ELSE unspill_loop(seq, marker, i + 1, unspill_step(st, seq[i], marker))

\* unspill appending the row no marker closed
unspill_keep_incomplete(seq, marker) ==
    LET st == unspill_loop(seq, marker, 1, [seqseq |-> <<>>, row |-> <<>>])
    IN  IF st.row # <<>> THEN Append(st.seqseq, st.row) ELSE st.seqseq

\* unspill: strict, the row no marker closed is not appended
unspill(seq, marker) ==
    unspill_loop(seq, marker, 1, [seqseq |-> <<>>, row |-> <<>>]).seqseq

\* ---------------------------------------------------------------- inputs
\* rows whose cells and cell bytes number at most n
RECURSIVE RowsUpTo(_)
RowsUpTo(n) ==
    IF n = 0 THEN {<<>>}
    ELSE {<<>>} \cup
         UNION {{<<c>> \o r : r \in RowsUpTo(n - 1 - Len(c))} : c \in SeqsUpTo(Bytes, n - 1)}

\* cells of a row plus their bytes
RECURSIVE RowSize(_)
RowSize(r) == IF r = <<>> THEN 0 ELSE 1 + Len(Head(r)) + RowSize(Tail(r))

\* documents whose rows, cells and cell bytes number at most n
RECURSIVE DocsUpTo(_)
DocsUpTo(n) ==
    IF n = 0 THEN {<<>>}
    ELSE {<<>>} \cup
         UNION {{<<r>> \o d : d \in DocsUpTo(n - 1 - RowSize(r))} : r \in RowsUpTo(n - 1)}

Documents == DocsUpTo(MaxDocSize)

ColumnLists == SeqsUpTo(0..MaxCol, MaxCols)

\* ---------------------------------------------------------------- text inputs
\* bytes of text: ASCII and the three-byte sequence LEAD CONT CONT
TextBytes == {LF, BACKSLASH, LOWER_N, LEAD_BYTE, CONT_BYTE}

\* the byte strings up to n bytes that a &str can hold
TextsUpTo(n) == {s \in SeqsUpTo(TextBytes, n) : is_utf8(s)}

Texts == TextsUpTo(MaxTextLen)

\* rows of text cells whose cells and cell bytes number at most n
RECURSIVE TextRowsUpTo(_)
TextRowsUpTo(n) ==
    IF n = 0 THEN {<<>>}
    ELSE {<<>>} \cup
         UNION {{<<c>> \o r : r \in TextRowsUpTo(n - 1 - Len(c))} : c \in TextsUpTo(n - 1)}

\* documents of text cells whose rows, cells and cell bytes number at most n
RECURSIVE TextDocsUpTo(_)
TextDocsUpTo(n) ==
    IF n = 0 THEN {<<>>}
    ELSE {<<>>} \cup
         UNION {{<<r>> \o d : d \in TextDocsUpTo(n - 1 - RowSize(r))} : r \in TextRowsUpTo(n - 1)}

TextDocuments == TextDocsUpTo(MaxTextDocSize)

\* every cell of the document is UTF-8: it can be held as Vec<Vec<String>>
IsTextDocument(d) == \A r \in 1..Len(d) : \A c \in 1..Len(d[r]) : is_utf8(d[r][c])

\* the document as Vec<Vec<String>>
Strings(d) == [r \in 1..Len(d) |-> [c \in 1..Len(d[r]) |-> Str(d[r][c])]]

\* ---------------------------------------------------------------- the caller
\* A run of the caller is one call on what it holds, then calls on what that
\* call returned: `op = "init"` guards the first, the name of the producing
\* call guards the follow-ups.
NoIndex == [kind |-> "none"]
NoPool == [splits |-> <<>>, status |-> <<>>, chunk_results |-> <<>>, finished |-> <<>>]
NoArgs == [columns |-> <<>>, row |-> 0, col |-> 0]
NoResult == Returned(<<>>)

\* A caller holding a byte string: a cell to escape, and equally a raw
\* buffer to unescape, decode, index or check.
InitBytes ==
    /\ cell \in ByteSeqs
    /\ input = cell
    /\ via = "raw"
    /\ data = <<>> /\ num_threads = 1
    /\ index = NoIndex /\ pool = NoPool /\ op = "init" /\ args = NoArgs /\ result = NoResult

\* A caller holding a raw byte buffer to project.
InitProjection ==
    /\ input \in SeqsUpTo(Bytes, MaxProjLen)
    /\ cell = input
    /\ via = "raw"
    /\ data = <<>> /\ num_threads = 1
    /\ index = NoIndex /\ pool = NoPool /\ op = "init" /\ args = NoArgs /\ result = NoResult

\* A caller holding a raw byte buffer to index and look cells up in.
InitLookup ==
    /\ input \in SeqsUpTo(Bytes, MaxLookupLen)
    /\ cell = input
    /\ via = "raw"
    /\ data = <<>> /\ num_threads = 1
    /\ index = NoIndex /\ pool = NoPool /\ op = "init" /\ args = NoArgs /\ result = NoResult

\* A caller holding a document to encode.
InitDocument ==
    /\ data \in Documents
    /\ input = <<>>
    /\ via = "raw"
    /\ cell = <<>> /\ num_threads = 1
    /\ index = NoIndex /\ pool = NoPool /\ op = "init" /\ args = NoArgs /\ result = NoResult

\* A caller holding a raw byte buffer in a process with a pool of any size.
InitPool ==
    /\ input \in ByteSeqs
    /\ num_threads \in 1..MaxThreads
    /\ via = "raw"
    /\ data = <<>> /\ cell = <<>>
    /\ index = NoIndex /\ pool = NoPool /\ op = "init" /\ args = NoArgs /\ result = NoResult

\* escape_bytes(cell); the caller keeps the escaped bytes as its buffer
Escape ==
    /\ op = "init"
    /\ input' = escape_bytes(cell)
    /\ via' = "escape_bytes"
    /\ op' = "escape_bytes"
    /\ result' = Returned(escape_bytes(cell))
    /\ UNCHANGED <<pool, data, cell, num_threads, index, args>>

\* unescape_bytes(input)
Unescape ==
    /\ op \in {"init", "escape_bytes"}
    /\ op' = "unescape_bytes"
    /\ result' = Returned(unescape_bytes(input))
    /\ UNCHANGED <<pool, data, cell, input, via, num_threads, index, args>>

\* encode_bytes(data); the caller keeps the encoded bytes as its buffer
Encode ==
    /\ op = "init"
    /\ input' = encode_bytes(data)
    /\ via' = "encode_bytes"
    /\ op' = "encode_bytes"
    /\ result' = Returned(encode_bytes(data))
    /\ UNCHANGED <<pool, data, cell, num_threads, index, args>>

\* decode_bytes(input)
Decode ==
    /\ op \in {"init", "encode_bytes", "check"}
    /\ op' = "decode_bytes"
    /\ result' = decode_bytes(input, num_threads)
    /\ UNCHANGED <<pool, data, cell, input, via, num_threads, index, args>>

\* decode_bytes_sequential(input)
DecodeSequential ==
    /\ op = "init"
    /\ op' = "decode_bytes_sequential"
    /\ result' = decode_bytes_sequential(input)
    /\ UNCHANGED <<pool, data, cell, input, via, num_threads, index, args>>

\* decode_bytes_parallel(input) on the process's pool
DecodeParallel ==
    /\ op = "init"
    /\ op' = "decode_bytes_parallel"
    /\ result' = decode_bytes_parallel(input, num_threads)
    /\ UNCHANGED <<pool, data, cell, input, via, num_threads, index, args>>

\* check(input): takes the buffer by shared reference
Check ==
    /\ op \in {"init", "encode_bytes", "decode_bytes"}
    /\ op' = "check"
    /\ result' = check(input)
    /\ UNCHANGED <<pool, data, cell, input, via, num_threads, index, args>>

\* decode_lazy(input): the caller keeps the LazyNsv
DecodeLazy ==
    /\ op = "init"
    /\ op' = "decode_lazy"
    /\ index' = decode_lazy(input, num_threads)
    /\ result' = Returned(index')
    /\ args' = NoArgs
    /\ UNCHANGED <<pool, data, cell, input, via, num_threads>>

NextEscape == Escape \/ Unescape
SpecEscape == InitBytes /\ [][NextEscape]_vars

NextCodec == Encode \/ Decode \/ Check
SpecCodec == InitDocument /\ [][NextCodec]_vars

NextParallel == DecodeSequential \/ DecodeParallel
SpecParallel == InitPool /\ [][NextParallel]_vars


\* decode_bytes_projected(input, columns)
DecodeProjected ==
    \E columns \in ColumnLists :
        /\ op = "init"
        /\ op' = "decode_bytes_projected"
        /\ args' = [NoArgs EXCEPT !.columns = columns]
        /\ result' = decode_bytes_projected(input, columns, num_threads)
        /\ UNCHANGED <<pool, data, cell, input, via, num_threads, index>>

\* decode_lazy_projected(input, columns): the caller keeps the ProjectedNsv
DecodeLazyProjected ==
    \E columns \in ColumnLists :
        /\ op = "init"
        /\ op' = "decode_lazy_projected"
        /\ args' = [NoArgs EXCEPT !.columns = columns]
        /\ result' = decode_lazy_projected(input, columns, num_threads)
        /\ index' = IF result'.panicked THEN NoIndex ELSE result'.value
        /\ UNCHANGED <<pool, data, cell, input, via, num_threads>>

\* LazyNsv::project(columns) on the index the caller holds
LazyProject ==
    \E columns \in ColumnLists :
        /\ op = "decode_lazy"
        /\ op' = "LazyNsv::project"
        /\ args' = [NoArgs EXCEPT !.columns = columns]
        /\ result' = Returned(LazyNsv_project(index, columns))
        /\ UNCHANGED <<pool, data, cell, input, via, num_threads, index>>

NextProjection == DecodeProjected \/ DecodeLazyProjected \/ DecodeLazy \/ LazyProject
SpecProjection == InitProjection /\ [][NextProjection]_vars

\* Rows and columns a caller looks up: the first, the last, and one past the
\* last of what the index holds.
AroundEnd(n) == {k \in {0, n - 1, n} : k >= 0}

LazyLookups ==
    {<<r, c>> : r \in AroundEnd(LazyNsv_row_count(index)),
                c \in UNION {AroundEnd(LazyNsv_col_count(index, q)) :
                                q \in AroundEnd(LazyNsv_row_count(index))}}

\* LazyNsv::col_count(row)
LazyColCount ==
    /\ op = "decode_lazy"
    /\ \E row \in AroundEnd(LazyNsv_row_count(index)) :
        /\ op' = "LazyNsv::col_count"
        /\ args' = [NoArgs EXCEPT !.row = row]
        /\ result' = Returned(LazyNsv_col_count(index, row))
        /\ UNCHANGED <<pool, data, cell, input, via, num_threads, index>>

\* LazyNsv::get(row, col)
LazyGet ==
    /\ op = "decode_lazy"
    /\ \E rc \in LazyLookups :
        /\ op' = "LazyNsv::get"
        /\ args' = [NoArgs EXCEPT !.row = rc[1], !.col = rc[2]]
        /\ result' = LazyNsv_get(index, rc[1], rc[2])
        /\ UNCHANGED <<pool, data, cell, input, via, num_threads, index>>

\* LazyNsv::get_raw(row, col)
LazyGetRaw ==
    /\ op = "decode_lazy"
    /\ \E rc \in LazyLookups :
        /\ op' = "LazyNsv::get_raw"
        /\ args' = [NoArgs EXCEPT !.row = rc[1], !.col = rc[2]]
        /\ result' = LazyNsv_get_raw(index, rc[1], rc[2])
        /\ UNCHANGED <<pool, data, cell, input, via, num_threads, index>>

\* ProjectedNsv::get(row, proj_col)
ProjectedGet ==
    /\ op = "decode_lazy_projected"
    /\ \E row \in AroundEnd(index.num_rows), proj_col \in AroundEnd(index.stride) :
        /\ op' = "ProjectedNsv::get"
        /\ args' = [args EXCEPT !.row = row, !.col = proj_col]
        /\ result' = ProjectedNsv_get(index, row, proj_col)
        /\ UNCHANGED <<pool, data, cell, input, via, num_threads, index>>

\* ProjectedNsv::get_raw(row, proj_col)
ProjectedGetRaw ==
    /\ op = "decode_lazy_projected"
    /\ \E row \in AroundEnd(index.num_rows), proj_col \in AroundEnd(index.stride) :
        /\ op' = "ProjectedNsv::get_raw"
        /\ args' = [args EXCEPT !.row = row, !.col = proj_col]
        /\ result' = ProjectedNsv_get_raw(index, row, proj_col)
        /\ UNCHANGED <<pool, data, cell, input, via, num_threads, index>>

NextLazy == DecodeLazy \/ LazyColCount \/ LazyGet \/ LazyGetRaw
SpecLazy == InitBytes /\ [][NextLazy]_vars

NextLookup ==
    \/ DecodeLazy \/ LazyColCount \/ LazyGet \/ LazyGetRaw
    \/ DecodeLazyProjected \/ ProjectedGet \/ ProjectedGetRaw
SpecLookup == InitLookup /\ [][NextLookup]_vars

Init == InitBytes \/ InitDocument
Next == Escape \/ Unescape \/ Encode \/ Decode \/ Check \/ DecodeLazy
Spec == Init /\ [][Next]_vars

\* column lists reaching the largest value of the index type
LimitColumnLists == SeqsUpTo({0, MaxCol, USIZE_MAX}, MaxCols)

\* decode_bytes_projected(input, columns), columns up to usize::MAX
DecodeProjectedAtLimit ==
    \E columns \in LimitColumnLists :
        /\ op = "init"
        /\ op' = "decode_bytes_projected"
        /\ args' = [NoArgs EXCEPT !.columns = columns]
        /\ result' = decode_bytes_projected(input, columns, num_threads)
        /\ UNCHANGED <<pool, data, cell, input, via, num_threads, index>>

\* decode_lazy_projected(input, columns), columns up to usize::MAX
DecodeLazyProjectedAtLimit ==
    \E columns \in LimitColumnLists :
        /\ op = "init"
        /\ op' = "decode_lazy_projected"
        /\ args' = [NoArgs EXCEPT !.columns = columns]
        /\ result' = decode_lazy_projected(input, columns, num_threads)
        /\ index' = IF result'.panicked THEN NoIndex ELSE result'.value
        /\ UNCHANGED <<pool, data, cell, input, via, num_threads>>

NextRemap == DecodeProjectedAtLimit \/ DecodeLazyProjectedAtLimit
SpecRemap == InitLookup /\ [][NextRemap]_vars

\* A caller holding a document to encode, of byte cells or of text cells.
InitEncoder ==
    /\ data \in Documents \cup TextDocuments
    /\ input = <<>>
    /\ via = "raw"
    /\ cell = <<>> /\ num_threads = 1
    /\ index = NoIndex /\ pool = NoPool /\ op = "init" /\ args = NoArgs /\ result = NoResult

\* encode(data) on a document of strings
EncodeText ==
    /\ op = "init" /\ IsTextDocument(data)
    /\ op' = "encode"
    /\ result' = encode(Strings(data))
    /\ UNCHANGED <<pool, data, cell, input, via, num_threads, index, args>>

\* escape_seqseq(data) on a document of strings
EscapeSeqseq ==
    /\ op = "init" /\ IsTextDocument(data)
    /\ op' = "escape_seqseq"
    /\ result' = Returned(escape_seqseq(Strings(data)))
    /\ UNCHANGED <<pool, data, cell, input, via, num_threads, index, args>>

\* spill(escaped, String::new()) on what escape_seqseq returned
Spill ==
    /\ op = "escape_seqseq"
    /\ op' = "spill"
    /\ result' = Returned(spill(result.value, String_new))
    /\ UNCHANGED <<pool, data, cell, input, via, num_threads, index, args>>

\* spill_chars(spilled) on what spill returned
SpillChars ==
    /\ op = "spill"
    /\ op' = "spill_chars"
    /\ result' = Returned(spill_chars(result.value))
    /\ UNCHANGED <<pool, data, cell, input, via, num_threads, index, args>>

NextEncoder == Encode \/ EncodeText \/ EscapeSeqseq \/ Spill \/ SpillChars
SpecEncoder == InitEncoder /\ [][NextEncoder]_vars

NextValidator == Check \/ Decode
SpecValidator == InitBytes /\ [][NextValidator]_vars

\* A caller holding a &str: a cell to escape or unescape, a buffer to decode.
InitString ==
    /\ cell \in Texts
    /\ input = cell
    /\ via = "raw"
    /\ data = <<>> /\ num_threads = 1
    /\ index = NoIndex /\ pool = NoPool /\ op = "init" /\ args = NoArgs /\ result = NoResult

\* decode(input) on a &str
DecodeText ==
    /\ op = "init"
    /\ op' = "decode"
    /\ result' = decode(Str(input), num_threads)
    /\ UNCHANGED <<pool, data, cell, input, via, num_threads, index, args>>

\* escape(cell) on a &str
EscapeText ==
    /\ op = "init"
    /\ op' = "escape"
    /\ result' = Returned(escape(Str(cell)))
    /\ UNCHANGED <<pool, data, cell, input, via, num_threads, index, args>>

\* unescape(input) on a &str
UnescapeText ==
    /\ op = "init"
    /\ op' = "unescape"
    /\ result' = Returned(unescape(Str(input)))
    /\ UNCHANGED <<pool, data, cell, input, via, num_threads, index, args>>

NextString == DecodeText \/ EscapeText \/ UnescapeText
SpecString == InitString /\ [][NextString]_vars

\* A caller holding a sequence of sequences of items to spill, or a flat
\* sequence of items to unspill; the items are bytes.
InitSpill ==
    /\ \/ data \in RowsUpTo(MaxDocSize) /\ input = <<>>
       \/ data = <<>> /\ input \in ByteSeqs
    /\ via = "raw"
    /\ cell = <<>> /\ num_threads = 1
    /\ index = NoIndex /\ pool = NoPool /\ op = "init" /\ args = NoArgs /\ result = NoResult

\* spill(seqseq, marker): on the caller's data, the caller keeping the flat
\* sequence as its buffer, or on what unspill returned for the same marker
SpillItems ==
    \E marker \in Bytes :
        /\ op \in {"init", "unspill"}
        /\ op = "unspill" => (via = "raw" /\ marker = args.marker)
        /\ op' = "spill"
        /\ args' = NoArgs @@ [marker |-> marker]
        /\ result' = Returned(spill(IF op = "init" THEN data ELSE result.value, marker))
        /\ input' = IF op = "init" THEN result'.value ELSE input
        /\ via' = IF op = "init" THEN "spill" ELSE via
        /\ UNCHANGED <<pool, data, cell, num_threads, index>>

\* unspill(seq, &marker) on the caller's buffer
UnspillItems ==
    \E marker \in Bytes :
        /\ op \in {"init", "spill"}
        /\ op = "spill" => (via = "spill" /\ marker = args.marker)
        /\ op' = "unspill"
        /\ args' = NoArgs @@ [marker |-> marker]
        /\ result' = Returned(unspill(input, marker))
        /\ UNCHANGED <<pool, data, cell, input, via, num_threads, index>>

NextSpill == SpillItems \/ UnspillItems
SpecSpill == InitSpill /\ [][NextSpill]_vars

\* ---------------------------------------------------------------- chunk workers
\* decode_bytes_parallel step by step: the calling thread plans the chunks,
\* the pool's workers decode them in any order, the calling thread joins.

\* `.collect()` of the indexed parallel iterator: slot k of the Vec holds what
\* the closure returned for chunk k
collected_as_finished(p) ==
    [j \in 1..Len(p.finished) |-> p.chunk_results[p.finished[j]].value]

collected(p) ==
    [k \in 1..Len(p.chunk_results) |-> p.chunk_results[k].value]

\* decode_bytes_parallel up to the par_iter: the early returns, or the chunks
\* handed to the pool
ParallelPlan ==
    LET chunk_size == Len(input) \div num_threads
        plan == split_points(input, num_threads)
        nchunks == Len(plan.splits) - 1
    IN  /\ op = "init"
        /\ IF chunk_size = 0 \/ (~plan.panic /\ Len(plan.splits) <= 2)
           THEN /\ op' = "decode_bytes_parallel"
                /\ result' = decode_bytes_sequential(input)
                /\ pool' = pool
           ELSE IF plan.panic \/ ~ChunksOk(input, plan.splits)
           THEN /\ op' = "decode_bytes_parallel"
                /\ result' = Panicked
                /\ pool' = pool
           ELSE /\ op' = "par_iter"
                /\ result' = result
                /\ pool' = [splits |-> plan.splits,
                            status |-> [k \in 1..nchunks |-> "queued"],
                            chunk_results |-> [k \in 1..nchunks |-> None],
                            finished |-> <<>>]
        /\ UNCHANGED <<data, cell, input, via, num_threads, index, args>>

\* a worker of the pool takes chunk k; the pool has num_threads workers
WorkerStart ==
    \E k \in 1..Len(pool.status) :
        /\ op = "par_iter"
        /\ pool.status[k] = "queued"
        /\ Cardinality({j \in 1..Len(pool.status) : pool.status[j] = "running"}) < num_threads
        /\ pool' = [pool EXCEPT !.status[k] = "running"]
        /\ UNCHANGED <<data, cell, input, via, num_threads, index, op, args, result>>

\* the worker holding chunk k returns from `|chunk| decode_bytes_sequential(chunk)`
WorkerFinish ==
    \E k \in 1..Len(pool.status) :
        /\ op = "par_iter"
        /\ pool.status[k] = "running"
        /\ pool' = [pool EXCEPT
                       !.status[k] = "done",
                       !.chunk_results[k] = Some(decode_bytes_sequential(chunk_of(input, pool.splits, k))),
                       !.finished = Append(@, k)]
        /\ UNCHANGED <<data, cell, input, via, num_threads, index, op, args, result>>

\* every chunk is done: the calling thread extends `result` with the collected
\* chunk results; `pool` keeps the record of the run
Join ==
    /\ op = "par_iter"
    /\ \A k \in 1..Len(pool.status) : pool.status[k] = "done"
    /\ op' = "decode_bytes_parallel"
    /\ LET chunk_results == collected(pool)
       IN  result' = IF \E k \in 1..Len(chunk_results) : chunk_results[k].panicked
                     THEN Panicked
                     ELSE Returned(concat_in_split_order(
                              [k \in 1..Len(chunk_results) |-> chunk_results[k].value], 1, <<>>))
    /\ UNCHANGED <<data, cell, input, via, num_threads, index, pool, args>>

NextWorkers == ParallelPlan \/ WorkerStart \/ WorkerFinish \/ Join
SpecWorkers == InitPool /\ [][NextWorkers]_vars

\* ---------------------------------------------------------------- index builders
\* The index builders behind decode_lazy and decode_lazy_projected, called as
\* those two call them: on a non-empty column list whose remap table was built.
InitIndex ==
    /\ input \in SeqsUpTo(Bytes, MaxProjLen)
    /\ num_threads \in 1..MaxThreads
    /\ cell = input
    /\ via = "raw"
    /\ data = <<>>
    /\ index = NoIndex /\ pool = NoPool /\ op = "init" /\ args = NoArgs /\ result = NoResult

\* index_sequential(input)
IndexSequential ==
    /\ op = "init"
    /\ op' = "index_sequential"
    /\ result' = Returned(index_sequential(input))
    /\ UNCHANGED <<pool, data, cell, input, via, num_threads, index, args>>

\* index_parallel(input) on the process's pool
IndexParallel ==
    /\ op = "init"
    /\ op' = "index_parallel"
    /\ result' = Returned(index_parallel(input, num_threads))
    /\ UNCHANGED <<pool, data, cell, input, via, num_threads, index, args>>

\* index_projected_parallel(input, col_map, max_col, stride) on the process's pool
IndexProjectedParallel ==
    \E columns \in ColumnLists \ {<<>>} :
        /\ op = "init"
        /\ op' = "index_projected_parallel"
        /\ args' = [NoArgs EXCEPT !.columns = columns]
        /\ LET ix == index_projected_parallel(input, build_col_map(columns), Len(columns), num_threads)
           IN  result' = IF ix.panic THEN Panicked
                         ELSE Returned([num_rows |-> ix.num_rows, spans |-> ix.spans])
        /\ UNCHANGED <<pool, data, cell, input, via, num_threads, index>>

NextIndex == IndexSequential \/ IndexParallel \/ IndexProjectedParallel
SpecIndex == InitIndex /\ [][NextIndex]_vars

\* ---------------------------------------------------------------- concatenation
\* A caller that decodes one buffer followed by another: two raw buffers, or
\* the encodings of two documents.
InitConcat ==
    /\ \/ data = <<>> /\ input \in SeqsUpTo(Bytes, MaxPrefixLen)
       \/ data \in DocsUpTo(MaxPartSize) /\ input = <<>>
    /\ via = "raw"
    /\ cell = <<>> /\ num_threads = 1
    /\ index = NoIndex /\ pool = NoPool /\ op = "init" /\ args = NoArgs /\ result = NoResult

\* decode_bytes_sequential on the caller's buffer followed by `suffix`;
\* args.cut is where the suffix begins
DecodeAppended ==
    \E suffix \in SeqsUpTo(Bytes, MaxSuffixLen) :
        /\ op = "init" /\ data = <<>>
        /\ input' = input \o suffix
        /\ args' = NoArgs @@ [cut |-> Len(input)]
        /\ op' = "decode_bytes_sequential"
        /\ result' = decode_bytes_sequential(input')
        /\ UNCHANGED <<pool, data, cell, via, num_threads, index>>

\* encode_bytes(data) followed by encode_bytes(appended) becomes the buffer
EncodeAppended ==
    \E appended \in DocsUpTo(MaxPartSize) :
        /\ op = "init" /\ input = <<>>
        /\ input' = encode_bytes(data) \o encode_bytes(appended)
        /\ via' = "encode_bytes"
        /\ args' = NoArgs @@ [cut |-> Len(encode_bytes(data)), appended |-> appended]
        /\ op' = "encode_bytes"
        /\ result' = Returned(input')
        /\ UNCHANGED <<pool, data, cell, num_threads, index>>

NextConcat == DecodeAppended \/ EncodeAppended \/ Decode
SpecConcat == InitConcat /\ [][NextConcat]_vars

\* ---------------------------------------------------------------- properties

\* C1: round-trip law: decoding the bytes that encode_bytes produced for a
\* document returns that document, for every document (empty rows, empty
\* cells, cells holding LF or backslash included).
RoundTripLaw ==
    (op = "decode_bytes" /\ via = "encode_bytes") => result = Returned(data)

RoundTripWitness ==
    /\ op = "decode_bytes" /\ via = "encode_bytes"
    /\ \E r \in 1..Len(data) : data[r] = <<>>
    /\ \E r \in 1..Len(data) : \E c \in 1..Len(data[r]) : data[r][c] = <<>>
    /\ \E r \in 1..Len(data) : \E c \in 1..Len(data[r]) :
           Contains(data[r][c], LF) \/ Contains(data[r][c], BACKSLASH)

\* C2: escape round trip: unescaping the bytes that escape_bytes produced for
\* a cell returns that cell, for every byte sequence (empty, a single
\* backslash, ending in a backslash included).
EscapeRoundTrip ==
    (op = "unescape_bytes" /\ via = "escape_bytes") => result = Returned(cell)

EscapeRoundTripWitness ==
    /\ op = "unescape_bytes" /\ via = "escape_bytes"
    /\ Len(cell) >= 2 /\ cell[Len(cell)] = BACKSLASH /\ Contains(cell, LF)

\* C3: sequential/parallel equivalence: decode_bytes_parallel returns, for
\* every buffer and every pool size >= 1, what decode_bytes_sequential
\* returns on the whole buffer.
SequentialParallelEquivalence ==
    op = "decode_bytes_parallel" => result = decode_bytes_sequential(input)

\* the buffer was really cut: at least two chunks, one of them holding an
\* empty row
ParallelChunkedWitness ==
    /\ op = "decode_bytes_parallel"
    /\ Len(input) \div num_threads > 0
    /\ Len(split_points(input, num_threads).splits) > 2
    /\ \E r \in 1..Len(result.value) : result.value[r] = <<>>
    /\ \E r \in 1..Len(result.value) : result.value[r] # <<>>

\* The projection of a decoded document onto a column list: every row, each
\* column c of the list mapped to the row's cell c, or to empty bytes.
Projection(doc, columns) ==
    [r \in 1..Len(doc) |->
        [j \in 1..Len(columns) |->
            IF columns[j] < Len(doc[r]) THEN doc[r][columns[j] + 1] ELSE <<>>]]

PairwiseDistinct(columns) ==
    \A i, j \in 1..Len(columns) : columns[i] = columns[j] => i = j

Decoded == decode_bytes(input, num_threads).value

\* C4: projection consistency: for every buffer and EVERY column list
\* (duplicated, reordered, out-of-range indices and the empty list included)
\* decode_bytes_projected returns the projection of decode_bytes(input).
ProjectionConsistency ==
    op = "decode_bytes_projected" => result = Returned(Projection(Decoded, args.columns))

\* C5: for a non-empty list of pairwise distinct columns, decode_bytes_projected
\* returns as many rows as decode_bytes, each with len(cols) entries in the
\* order of cols, entry j being the row's cell cols[j] or empty bytes; columns
\* 0..k-1 of a document whose rows all have k cells give decode_bytes(input).
DistinctProjection ==
    (op = "decode_bytes_projected" /\ args.columns # <<>> /\ PairwiseDistinct(args.columns)) =>
        LET cols == args.columns
            rows == result.value
        IN  /\ ~result.panicked
            /\ Len(rows) = Len(Decoded)
            /\ \A r \in 1..Len(rows) :
                /\ Len(rows[r]) = Len(cols)
                /\ \A j \in 1..Len(cols) :
                       rows[r][j] = IF cols[j] < Len(Decoded[r])
                                    THEN Decoded[r][cols[j] + 1] ELSE <<>>
            /\ ((\A j \in 1..Len(cols) : cols[j] = j - 1)
                /\ (\A r \in 1..Len(Decoded) : Len(Decoded[r]) = Len(cols))) => rows = Decoded

\* reordered columns, a row that has both and a row that lacks one
DistinctProjectionWitness ==
    /\ op = "decode_bytes_projected"
    /\ Len(args.columns) = 2 /\ args.columns[1] > args.columns[2]
    /\ \E r \in 1..Len(Decoded) : Len(Decoded[r]) > args.columns[1]
    /\ \E r \in 1..Len(Decoded) : Len(Decoded[r]) <= args.columns[2]

\* C6: the lazy index agrees with the full decode: same row count, same
\* column count per row, get(r, c) the decoded cell, and get(r, c) the
\* unescaped get_raw(r, c).
LazyAgreesWithDecode ==
    /\ index.kind = "LazyNsv" =>
        /\ LazyNsv_row_count(index) = Len(Decoded)
        /\ \A r \in 0..(Len(Decoded) - 1) :
            /\ LazyNsv_col_count(index, r) = Len(Decoded[r + 1])
            /\ \A c \in 0..(Len(Decoded[r + 1]) - 1) :
                /\ LazyNsv_get(index, r, c) = Returned(Some(Decoded[r + 1][c + 1]))
                /\ ~LazyNsv_get_raw(index, r, c).panicked
                /\ LazyNsv_get_raw(index, r, c).value.some
                /\ LazyNsv_get(index, r, c).value.value =
                       unescape_bytes(LazyNsv_get_raw(index, r, c).value.value)
    /\ (op = "LazyNsv::col_count" /\ args.row < Len(Decoded)) =>
           result = Returned(Len(Decoded[args.row + 1]))
    /\ (op = "LazyNsv::get" /\ args.row < Len(Decoded) /\ args.col < Len(Decoded[args.row + 1])) =>
           result = Returned(Some(Decoded[args.row + 1][args.col + 1]))

\* a cell of the second row whose raw bytes differ from its value
LazyAgreesWitness ==
    /\ op = "LazyNsv::get" /\ args.row >= 1 /\ result.value.some
    /\ result.value.value # LazyNsv_get_raw(index, args.row, args.col).value.value

\* C7: LazyNsv::project returns one entry list per indexed row, each with
\* len(columns) entries in the requested order (duplicates and reordering
\* included): entry j is the unescaped cell at column columns[j] of the row,
\* or empty bytes when the row has no such column.
LazyProjectShape ==
    op = "LazyNsv::project" =>
        LET cols == args.columns
            rows == result.value
        IN  /\ Len(rows) = LazyNsv_row_count(index)
            /\ \A r \in 1..Len(rows) :
                /\ Len(rows[r]) = Len(cols)
                /\ \A j \in 1..Len(cols) :
                       LET got == LazyNsv_get(index, r - 1, cols[j]).value
                       IN  rows[r][j] = IF got.some THEN got.value ELSE <<>>
            /\ rows = Projection(Decoded, cols)

\* a duplicated column over a row holding an escaped cell
LazyProjectWitness ==
    /\ op = "LazyNsv::project"
    /\ Len(args.columns) = 2 /\ args.columns[1] = args.columns[2]
    /\ \E r \in 1..Len(result.value) :
           /\ result.value[r][1] # <<>>
           /\ result.value[r][1] # LazyNsv_get_raw(index, r - 1, args.columns[1]).value.value

\* C8: for a non-empty list of pairwise distinct columns decode_lazy_projected
\* has stride = len(cols), num_rows = rows of decode_bytes, num_rows * stride
\* spans; slot r * stride + j is the span of the raw cell at column cols[j] of
\* row r, or the empty sentinel when row r has no such column; get(r, j) is the
\* decoded cell or empty bytes.
ProjectedFlatIndex ==
    (op = "decode_lazy_projected" /\ args.columns # <<>> /\ PairwiseDistinct(args.columns)) =>
        LET cols == args.columns
            raw == index_sequential(input)
        IN  /\ ~result.panicked
            /\ index.stride = Len(cols)
            /\ index.num_rows = Len(Decoded)
            /\ Len(index.spans) = index.num_rows * index.stride
            /\ \A r \in 0..(index.num_rows - 1) : \A j \in 0..(index.stride - 1) :
                /\ index.spans[r * index.stride + j + 1] =
                       IF cols[j + 1] < Len(raw[r + 1]) THEN raw[r + 1][cols[j + 1] + 1]
                       ELSE EMPTY_SPAN
                /\ ProjectedNsv_get(index, r, j) =
                       Returned(Some(IF cols[j + 1] < Len(Decoded[r + 1])
                                     THEN Decoded[r + 1][cols[j + 1] + 1] ELSE <<>>))

\* two rows, a recorded span and a sentinel slot, the buffer ending in LF LF
ProjectedFlatIndexWitness ==
    /\ op = "decode_lazy_projected" /\ PairwiseDistinct(args.columns)
    /\ index.num_rows >= 2
    /\ Len(input) >= 2 /\ input[Len(input)] = LF /\ input[Len(input) - 1] = LF
    /\ \E k \in 1..Len(index.spans) : index.spans[k] = EMPTY_SPAN
    /\ \E k \in 1..Len(index.spans) : index.spans[k] # EMPTY_SPAN

\* C9: out-of-range lookups are absent and never fail: LazyNsv get / get_raw
\* return None when r >= row_count or c >= col_count(r), col_count(r) returns
\* 0 for r >= row_count, ProjectedNsv get / get_raw return None when
\* r >= num_rows or proj_col >= stride.
OutOfRangeIsAbsent ==
    /\ (op \in {"LazyNsv::get", "LazyNsv::get_raw"}
        /\ (args.row >= LazyNsv_row_count(index)
            \/ args.col >= LazyNsv_col_count(index, args.row))) => result = Returned(None)
    /\ (op = "LazyNsv::col_count" /\ args.row >= LazyNsv_row_count(index)) => result = Returned(0)
    /\ (op \in {"ProjectedNsv::get", "ProjectedNsv::get_raw"}
        /\ (args.row >= index.num_rows \/ args.col >= index.stride)) => result = Returned(None)
    /\ op \in {"LazyNsv::get", "LazyNsv::get_raw", "LazyNsv::col_count",
               "ProjectedNsv::get", "ProjectedNsv::get_raw"} => ~result.panicked

\* a projected column past the stride asked of the first of several rows
OutOfRangeWitness ==
    /\ op = "ProjectedNsv::get"
    /\ index.num_rows >= 2 /\ args.row = 0 /\ args.col = index.stride /\ index.stride >= 1
    /\ result = Returned(None)

\* C10: totality and leniency: decode_bytes, decode_lazy, encode_bytes,
\* escape_bytes, unescape_bytes and check return a value for every byte
\* sequence; an input check flags still decodes; a call of check leaves the
\* buffer, and so what decode_bytes returns for it, unchanged.
NoCallPanics ==
    /\ ~result.panicked
    /\ (op = "check" /\ result.value # <<>>) => ~decode_bytes(input, num_threads).panicked

CheckLeavesDecodeAlone ==
    op' = "check" =>
        /\ input' = input
        /\ decode_bytes(input', num_threads') = decode_bytes(input, num_threads)

TotalityAndLeniency == []NoCallPanics /\ [][CheckLeavesDecodeAlone]_vars

\* check flags an unknown escape, a dangling backslash and a missing terminal
\* LF in a buffer holding a byte that is not UTF-8
TotalityWitness ==
    /\ op = "check" /\ Len(result.value) >= 3
    /\ Contains(input, HIGH_BYTE)
    /\ ~decode_bytes(input, num_threads).panicked

\* C11: a projected column outside a row's width resolves to empty bytes and
\* never to an error, for every column value of the index type, the largest
\* included: decode_bytes_projected and decode_lazy_projected complete, and
\* building the remap table neither overflows nor indexes out of bounds.
RemapNeverFails ==
    op \in {"decode_bytes_projected", "decode_lazy_projected"} =>
        LET cols == args.columns
            cm == build_col_map(cols)
        IN  /\ ~result.panicked
            /\ (input # <<>> /\ cols # <<>>) => ~cm.overflow /\ ~cm.panic
            /\ op = "decode_bytes_projected" =>
                   \A r \in 1..Len(result.value) : \A j \in 1..Len(cols) :
                       (r <= Len(Decoded) /\ cols[j] >= Len(Decoded[r])) =>
                           result.value[r][j] = <<>>

\* escape_bytes(cell) and one LF for each cell of the row, then one more LF
RECURSIVE RowShape(_)
RowShape(row) ==
    IF row = <<>> THEN <<LF>> ELSE escape_bytes(Head(row)) \o <<LF>> \o RowShape(Tail(row))

\* C12: encoder output shape: encode_bytes(D) is, row by row in order,
\* escape_bytes(cell) then LF for each cell in order, then one more LF; the
\* empty document encodes to empty output, an empty row contributes exactly
\* one LF, and the output is spill(LF) after spill("") after escape_seqseq.
EncoderShape ==
    /\ op = "encode_bytes" =>
        /\ ~result.panicked
        /\ \A i \in 1..Len(data) :
               encode_bytes(SubSeq(data, 1, i)) =
                   encode_bytes(SubSeq(data, 1, i - 1)) \o RowShape(data[i])
        /\ \A i \in 1..Len(data) :
               data[i] = <<>> =>
                   encode_bytes(SubSeq(data, 1, i)) =
                       Append(encode_bytes(SubSeq(data, 1, i - 1)), LF)
        /\ result.value = encode_bytes(SubSeq(data, 1, Len(data)))
        /\ data = <<>> => result.value = <<>>
    /\ op = "encode" => result = Returned(Str(encode_bytes(data)))
    /\ op = "spill_chars" => collect_string(result.value) = encode_bytes(data)

\* the decomposition of a document with an empty row and a cell of one
\* three-byte char
EncoderShapeWitness ==
    /\ op = "spill_chars"
    /\ \E i \in 1..Len(data) : data[i] = <<>>
    /\ \E i \in 1..Len(data) : \E c \in 1..Len(data[i]) : Contains(data[i][c], LEAD_BYTE)
    /\ collect_string(result.value) = encode_bytes(data)

\* 1-indexed line of byte offset i: one more than the LF bytes before it
LineOf(inp, i) == 1 + Cardinality({k \in 1..i : inp[k] = LF})

\* 1-indexed column of byte offset i: one more than its offset from the byte
\* after the last LF before it
ColOf(inp, i) ==
    LET lfs == {k \in 1..i : inp[k] = LF}
        line_begin == IF lfs = {} THEN 0 ELSE CHOOSE k \in lfs : \A m \in lfs : m <= k
    IN  1 + i - line_begin

\* consecutive backslashes immediately before byte offset i
RECURSIVE BackslashesBefore(_, _)
BackslashesBefore(inp, i) ==
    IF i >= 1 /\ inp[i] = BACKSLASH THEN 1 + BackslashesBefore(inp, i - 1) ELSE 0

\* the backslash at offset i begins an escape: it is not the escaped byte of
\* the backslash before it
BeginsEscape(inp, i) ==
    i < Len(inp) /\ inp[i + 1] = BACKSLASH /\ BackslashesBefore(inp, i) % 2 = 0

\* the backslash at offset i is the final byte of its line or of the input
EndsLineOrInput(inp, i) ==
    i < Len(inp) /\ inp[i + 1] = BACKSLASH /\ (i + 1 = Len(inp) \/ inp[i + 2] = LF)

WarningsOf(kind) == {k \in 1..Len(result.value) : result.value[k].kind = kind}

\* the DanglingBackslash warning of the backslash at offset i is reported
\* once, and at the end of input it is followed by NoTerminalLf at the length
DanglingReportedAt(i) ==
    /\ Cardinality({k \in WarningsOf(DanglingBackslash) :
                       result.value[k] = Warning(DanglingBackslash, i, LineOf(input, i),
                                                 ColOf(input, i))}) = 1
    /\ i + 1 = Len(input) =>
           \E k \in 1..(Len(result.value) - 1) :
               /\ result.value[k].kind = DanglingBackslash /\ result.value[k].pos = i
               /\ result.value[k + 1].kind = NoTerminalLf
               /\ result.value[k + 1].pos = Len(input)

BeforeOtherByte(inp, i) ==
    /\ i + 1 < Len(inp) /\ inp[i + 1] = BACKSLASH
    /\ inp[i + 2] \notin {LOWER_N, BACKSLASH, LF}

\* warnings of any kind whose pos is byte offset i
WarningsAt(i) == {k \in 1..Len(result.value) : result.value[k].pos = i}

\* one UnknownEscape(b) at the backslash of offset i, b the byte after it
UnknownReportedAt(i) ==
    /\ Cardinality(WarningsAt(i)) = 1
    /\ \A k \in WarningsAt(i) :
           result.value[k] = Warning(UnknownEscape(input[i + 2]), i, LineOf(input, i),
                                     ColOf(input, i))

NoTerminalLfReported ==
    op = "check" =>
        LET n == Len(input)
            ws == result.value
        IN  /\ ~result.panicked
            /\ (WarningsOf(NoTerminalLf) # {}) <=> (n > 0 /\ input[n] # LF)
            /\ Cardinality(WarningsOf(NoTerminalLf)) <= 1
            /\ \A k \in WarningsOf(NoTerminalLf) :
                   /\ k = Len(ws)
                   /\ ws[k] = Warning(NoTerminalLf, n, LineOf(input, n), ColOf(input, n))
                   /\ ws[k].line = LineOf(input, n - 1)
                   /\ ws[k].col = ColOf(input, n - 1) + 1
            /\ n = 0 => ws = <<>>

\* an unterminated second line: the warning follows another one and points
\* past the last byte of line 2
NoTerminalLfWitness ==
    /\ op = "check"
    /\ Len(result.value) >= 2
    /\ result.value[Len(result.value)].kind = NoTerminalLf
    /\ result.value[Len(result.value)].line = 2
    /\ result.value[Len(result.value)].col >= 2

\* the LF bytes the buffer starts with
RECURSIVE LeadingLfs(_)
LeadingLfs(s) == IF s # <<>> /\ Head(s) = LF THEN 1 + LeadingLfs(Tail(s)) ELSE 0

EmptyRows(n) == [k \in 1..n |-> <<>>]

\* C16: empty rows from LF runs: the empty input decodes to the empty
\* document, n LF bytes followed by Y decode to n empty rows followed by
\* decode_bytes(Y), and n LF bytes alone decode to n empty rows.
LfRunsAreEmptyRows ==
    op = "decode_bytes" =>
        /\ ~result.panicked
        /\ input = <<>> => result.value = <<>>
        /\ \A n \in 0..LeadingLfs(input) :
               result.value = EmptyRows(n) \o
                   decode_bytes(SubSeq(input, n + 1, Len(input)), num_threads).value
        /\ LeadingLfs(input) = Len(input) => result.value = EmptyRows(Len(input))

\* two LF bytes before a cell
LfRunsWitness ==
    /\ op = "decode_bytes"
    /\ LeadingLfs(input) = 2 /\ Len(input) > 2
    /\ Len(result.value) = 3 /\ result.value[3] # <<>>

\* the bytes after the last LF of the buffer
RECURSIVE Tail_after_last_lf(_)
Tail_after_last_lf(s) ==
    IF s = <<>> \/ s[Len(s)] = LF THEN <<>>
    ELSE Append(Tail_after_last_lf(SubSeq(s, 1, Len(s) - 1)), s[Len(s)])

\* C17: the unterminated tail is kept: for a non-empty buffer whose last byte
\* is not LF, the bytes after its last LF are unescaped into the final cell of
\* the final row, and the buffer decodes as it does followed by one LF and by
\* two LFs.
UnterminatedTailKept ==
    (op = "decode_bytes" /\ input # <<>> /\ input[Len(input)] # LF) =>
        LET rows == result.value
        IN  /\ ~result.panicked
            /\ rows # <<>> /\ rows[Len(rows)] # <<>>
            /\ rows[Len(rows)][Len(rows[Len(rows)])] = unescape_bytes(Tail_after_last_lf(input))
            /\ result = decode_bytes(Append(input, LF), num_threads)
            /\ result = decode_bytes(input \o <<LF, LF>>, num_threads)

\* an unterminated escaped cell after a terminated one
UnterminatedTailWitness ==
    /\ op = "decode_bytes" /\ input # <<>> /\ input[Len(input)] # LF
    /\ Len(result.value) = 1 /\ Len(result.value[1]) = 2
    /\ result.value[1][2] # Tail_after_last_lf(input)

\* the cell read left to right: backslash-n is LF, backslash-backslash is one
\* backslash, backslash before any other byte stays with that byte, a last
\* backslash is dropped, any other byte is copied
RECURSIVE UnescapeReference(_)
UnescapeReference(s) ==
    IF s = <<>> THEN <<>>
    ELSE IF Head(s) # BACKSLASH THEN <<Head(s)>> \o UnescapeReference(Tail(s))
    ELSE IF Len(s) = 1 THEN <<>>
    ELSE (IF s[2] = LOWER_N THEN <<LF>>
          ELSE IF s[2] = BACKSLASH THEN <<BACKSLASH>>
          ELSE <<BACKSLASH, s[2]>>) \o UnescapeReference(SubSeq(s, 3, Len(s)))

\* C18: unescape_bytes matches its reference definition for every byte
\* sequence: one backslash alone yields the empty sequence, a cell with no
\* backslash is returned unchanged, and otherwise the cell is read left to
\* right as the reference reads it.
UnescapeMatchesReference ==
    op = "unescape_bytes" =>
        /\ result = Returned(UnescapeReference(input))
        /\ input = <<BACKSLASH>> => result.value = <<>>
        /\ ~Contains(input, BACKSLASH) => result.value = input

\* an escaped LF, an unknown escape kept whole, and a last backslash dropped
UnescapeReferenceWitness ==
    /\ op = "unescape_bytes"
    /\ Len(input) = 5 /\ input[5] = BACKSLASH /\ BeginsEscape(input, 4)
    /\ input[1] = BACKSLASH /\ input[2] = LOWER_N
    /\ result.value = <<LF, BACKSLASH, HIGH_BYTE>>

\* one byte of the cell, escaped
EscapedByte(b) ==
    IF b = BACKSLASH THEN <<BACKSLASH, BACKSLASH>>
    ELSE IF b = LF THEN <<BACKSLASH, LOWER_N>>
    ELSE <<b>>

RECURSIVE EscapeReference(_)
EscapeReference(x) ==
    IF x = <<>> THEN <<>> ELSE EscapedByte(Head(x)) \o EscapeReference(Tail(x))

CountOf(s, b) == Cardinality({k \in 1..Len(s) : s[k] = b})

\* C19: escape_bytes never creates a structural LF and never yields an empty
\* cell: the result holds no LF and at least one byte; the empty input yields
\* one backslash, every backslash becomes two, every LF becomes backslash 'n'
\* with the inserted 'n' left alone, and an input with neither is unchanged.
EscapeShape ==
    op = "escape_bytes" =>
        LET out == result.value
        IN  /\ ~result.panicked
            /\ ~Contains(out, LF) /\ Len(out) >= 1
            /\ cell = <<>> => out = <<BACKSLASH>>
            /\ cell # <<>> =>
                /\ out = EscapeReference(cell)
                /\ CountOf(out, BACKSLASH) = 2 * CountOf(cell, BACKSLASH) + CountOf(cell, LF)
                /\ CountOf(out, LOWER_N) = CountOf(cell, LOWER_N) + CountOf(cell, LF)
                /\ Len(out) = Len(cell) + CountOf(cell, BACKSLASH) + CountOf(cell, LF)
            /\ (cell # <<>> /\ ~Contains(cell, LF) /\ ~Contains(cell, BACKSLASH)) => out = cell

\* a cell with an LF next to an 'n' and a backslash
EscapeShapeWitness ==
    /\ op = "escape_bytes"
    /\ Contains(cell, LF) /\ Contains(cell, BACKSLASH) /\ Contains(cell, LOWER_N)
    /\ Len(result.value) = Len(cell) + 2

\* C20: text / byte equivalence: for an input that is valid UTF-8 every cell
\* decode_bytes produces is valid UTF-8, so decode(s) equals
\* decode_bytes(s as bytes) cell for cell, and the unchecked conversions of
\* decode, escape and unescape never produce an invalid string.
TextByteEquivalence ==
    /\ op = "decode" =>
        LET bytes == decode_bytes(input, num_threads)
            rows == result.value
        IN  /\ ~result.panicked /\ ~bytes.panicked
            /\ Len(rows) = Len(bytes.value)
            /\ \A r \in 1..Len(rows) :
                /\ Len(rows[r]) = Len(bytes.value[r])
                /\ \A c \in 1..Len(rows[r]) :
                    /\ is_utf8(bytes.value[r][c])
                    /\ rows[r][c].valid
                    /\ as_bytes(rows[r][c]) = bytes.value[r][c]
    /\ op = "escape" =>
           result.value.valid /\ as_bytes(result.value) = escape_bytes(cell)
    /\ op = "unescape" =>
           result.value.valid /\ as_bytes(result.value) = unescape_bytes(input)

\* a buffer with an LF, a backslash and a three-byte char, decoded to a cell
\* that holds the char
TextByteWitness ==
    /\ op = "decode"
    /\ Contains(input, LEAD_BYTE) /\ Contains(input, LF) /\ Contains(input, BACKSLASH)
    /\ \E r \in 1..Len(result.value) : \E c \in 1..Len(result.value[r]) :
           /\ Contains(as_bytes(result.value[r][c]), LEAD_BYTE)
           /\ result.value[r][c].valid

\* no item of the sequence of sequences equals the marker
MarkerFree(x, m) == \A r \in 1..Len(x) : ~Contains(x[r], m)

\* the items of s up to its last marker
RECURSIVE UpToLastMarker(_, _)
UpToLastMarker(s, m) ==
    IF s = <<>> \/ s[Len(s)] = m THEN s ELSE UpToLastMarker(SubSeq(s, 1, Len(s) - 1), m)

\* C21: spill and unspill are inverse on terminated data and unspill is
\* strict: unspill(spill(X, m), m) = X when no item of X equals m;
\* spill(unspill(s, m), m) = s when s is empty or ends with m; for s not
\* ending with m unspill discards the items after the last marker (none at
\* all yields no rows), where decode_bytes keeps the unterminated tail.
SpillUnspillInverse ==
    /\ (op = "unspill" /\ via = "spill" /\ MarkerFree(data, args.marker)) =>
           result.value = data
    /\ (op = "spill" /\ via = "raw" /\ (input = <<>> \/ input[Len(input)] = args.marker)) =>
           result.value = input
    /\ (op = "unspill" /\ via = "raw") =>
        /\ result.value = unspill(UpToLastMarker(input, args.marker), args.marker)
        /\ spill(result.value, args.marker) = UpToLastMarker(input, args.marker)
        /\ ~Contains(input, args.marker) => result.value = <<>>
        /\ (args.marker = LF /\ input # <<>> /\ input[Len(input)] # LF) =>
            /\ Len(decode_bytes(input, num_threads).value) >= 1
            /\ unescape_bytes(Tail_after_last_lf(input)) =
                   LET rows == decode_bytes(input, num_threads).value
                   IN  rows[Len(rows)][Len(rows[Len(rows)])]

\* a flat sequence with a closed row and items after its last marker
SpillStrictWitness ==
    /\ op = "unspill" /\ via = "raw"
    /\ Contains(input, args.marker) /\ input[Len(input)] # args.marker
    /\ Len(result.value) >= 1 /\ result.value[1] # <<>>
    /\ spill(result.value, args.marker) # input


\* The scanner of decode_bytes_sequential after the first p bytes of inp.
ScannerAt(inp, p) ==
    decode_loop(Slice(inp, 0, p), 0, [data |-> <<>>, row |-> <<>>, start |-> 0, panic |-> FALSE])

RECURSIVE Flatten(_)
Flatten(ss) == IF ss = <<>> THEN <<>> ELSE ss[1] \o Flatten(Tail(ss))

\* C22: chunk plan invariant: whenever decode_bytes_parallel builds its split
\* list (chunk size > 0), the list starts at 0, ends at the buffer's length and
\* is strictly increasing; every interior split p is below the length and
\* directly follows two LF bytes; the chunks are non-empty and together they
\* are the buffer; the sequential scanner reaches every split with an empty
\* current row and its cell start at the split; and a plan of fewer than two
\* chunks makes the call return what decode_bytes_sequential returns.
ChunkPlanInvariant ==
    op = "decode_bytes_parallel" /\ Len(input) \div num_threads > 0 =>
        LET plan == split_points(input, num_threads)
            splits == plan.splits
            L == Len(input)
        IN  /\ ~plan.panic
            /\ splits[1] = 0 /\ splits[Len(splits)] = L
            /\ \A k \in 1..(Len(splits) - 1) : splits[k] < splits[k + 1]
            /\ \A k \in 2..(Len(splits) - 1) :
                   /\ splits[k] < L /\ splits[k] >= 2
                   /\ input[splits[k] - 1] = LF /\ input[splits[k]] = LF
                   /\ ScannerAt(input, splits[k]).row = <<>>
                   /\ ScannerAt(input, splits[k]).start = splits[k]
                   /\ ~ScannerAt(input, splits[k]).panic
            /\ ChunksOk(input, splits)
            /\ Flatten([k \in 1..(Len(splits) - 1) |-> chunk_of(input, splits, k)]) = input
            /\ Len(splits) <= 2 => result = decode_bytes_sequential(input)

\* two nominal positions found the same terminator, and the plan still cuts
\* the buffer
ChunkPlanWitness ==
    /\ op = "decode_bytes_parallel"
    /\ Len(input) \div num_threads > 0
    /\ LET raw == split_loop(input, Len(input) \div num_threads, num_threads, 1,
                             [splits |-> <<0>>, panic |-> FALSE]).splits
       IN  /\ \E k \in 1..(Len(raw) - 1) : raw[k] = raw[k + 1]
           /\ Len(split_points(input, num_threads).splits) >= 3


\* the rows of the chunks of a plan, chunk after chunk in split order
RowsInSplitOrder(inp, splits) ==
    Flatten([k \in 1..(Len(splits) - 1) |-> decode_bytes_sequential(chunk_of(inp, splits, k)).value])

JoinInSplitOrder ==
    op = "decode_bytes_parallel" /\ pool # NoPool =>
        /\ result = Returned(RowsInSplitOrder(input, pool.splits))
        /\ result = decode_bytes_parallel(input, num_threads)

\* a step taken while the chunks are with the pool fills at most one slot, a
\* slot that was empty, with the rows of its own chunk, and leaves the other
\* slots, the plan and the buffer as they were
WorkersIsolated ==
    op = "par_iter" =>
        /\ input' = input
        /\ pool'.splits = pool.splits
        /\ \A k \in 1..Len(pool.chunk_results) :
               pool'.chunk_results[k] # pool.chunk_results[k] =>
                   /\ pool.chunk_results[k] = None
                   /\ pool.status[k] = "running"
                   /\ pool'.chunk_results[k] =
                          Some(decode_bytes_sequential(chunk_of(input, pool.splits, k)))
                   /\ \A j \in 1..Len(pool.chunk_results) :
                          j # k => pool'.chunk_results[j] = pool.chunk_results[j]

\* C23: deterministic join order: whatever the order in which the chunk
\* workers start and finish, decode_bytes_parallel returns the rows of chunk
\* 0, then those of chunk 1, and so on in split order, which is also what the
\* call computes taken as one step; and no worker step changes the buffer, the
\* plan or a slot other than its own.
DeterministicJoin == []JoinInSplitOrder /\ [][WorkersIsolated]_vars

\* the last chunk finished first, and joining in completion order would have
\* given other rows
OutOfOrderCompletionWitness ==
    /\ op = "decode_bytes_parallel" /\ pool # NoPool
    /\ pool.finished[1] = Len(pool.chunk_results)
    /\ ~result.panicked
    /\ result.value # Flatten([j \in 1..Len(pool.finished) |-> pool.chunk_results[pool.finished[j]].value.value])


\* C24: the parallel index builders return absolute offsets: index_parallel
\* returns, for every buffer and pool size, the rows of spans index_sequential
\* returns on the whole buffer, and index_projected_parallel returns the row
\* count and the flat spans index_projected_sequential returns on the whole
\* buffer, the spans of absent columns being (0, 0) in every chunk.
ParallelIndexAbsolute ==
    /\ op = "index_parallel" => result = Returned(index_sequential(input))
    /\ op = "index_projected_parallel" =>
           LET whole == index_projected_sequential(input, build_col_map(args.columns),
                                                   Len(args.columns))
           IN  /\ ~result.panicked /\ ~whole.panic
               /\ result.value.num_rows = whole.num_rows
               /\ result.value.spans = whole.spans

\* the buffer was cut, and a chunk after the first holds both a cell of a
\* projected column and a projected column its row does not have
ParallelIndexWitness ==
    /\ op = "index_projected_parallel"
    /\ Len(input) \div num_threads > 0
    /\ LET splits == split_points(input, num_threads).splits
           stride == Len(args.columns)
           spans == result.value.spans
       IN  /\ Len(splits) > 2
           /\ \E r \in 0..(result.value.num_rows - 1) :
                  /\ \E j \in 1..stride : spans[r * stride + j] = EMPTY_SPAN
                  /\ \E j \in 1..stride : spans[r * stride + j].start >= splits[2]
                                          /\ spans[r * stride + j].start < spans[r * stride + j].end


\* s is empty or its last two bytes are LF
RowAligned(s) == s = <<>> \/ (Len(s) >= 2 /\ s[Len(s) - 1] = LF /\ s[Len(s)] = LF)

\* C25: decode distributes over row-aligned concatenation: for a buffer X that
\* is empty or ends with LF LF and any buffer Y, decode_bytes_sequential of X
\* followed by Y returns the rows of X followed by the rows of Y; and decoding
\* the encoding of one document followed by the encoding of another returns
\* the rows of the first followed by the rows of the second.
DecodeDistributes ==
    /\ op = "decode_bytes_sequential" /\ "cut" \in DOMAIN args
       /\ RowAligned(Slice(input, 0, args.cut)) =>
           /\ ~result.panicked
           /\ result.value = decode_bytes_sequential(Slice(input, 0, args.cut)).value
                             \o decode_bytes_sequential(Slice(input, args.cut, Len(input))).value
    /\ op = "decode_bytes" /\ "appended" \in DOMAIN args =>
           result = Returned(data \o args.appended)

\* a buffer ending in LF LF holding a row, followed by a buffer that begins
\* with an empty row and ends with an unterminated cell
DecodeDistributesWitness ==
    /\ op = "decode_bytes_sequential" /\ "cut" \in DOMAIN args
    /\ args.cut >= 3 /\ RowAligned(Slice(input, 0, args.cut))
    /\ Len(input) >= args.cut + 2
    /\ input[args.cut + 1] = LF /\ input[Len(input)] # LF
    /\ Len(result.value) = 3


\* the spans of an index, row after row
SpansRowMajor(rows) == Flatten(rows)

\* C26: CellSpan well-formedness: every span decode_lazy records has
\* start < end <= the buffer's length, no LF among its bytes, a start that is 0
\* or right after an LF, and an end that is the buffer's length or the position
\* of an LF; in row-major order each span ends before the next starts; and no
\* get or get_raw on the index slices out of bounds.
SpansWellFormed ==
    /\ index.kind = "LazyNsv" =>
        LET spans == SpansRowMajor(index.rows)
            L == Len(index.input)
        IN  /\ index.input = input
            /\ \A i \in 1..Len(spans) :
                   /\ spans[i].start < spans[i].end /\ spans[i].end <= L
                   /\ ~Contains(Slice(input, spans[i].start, spans[i].end), LF)
                   /\ spans[i].start = 0 \/ input[spans[i].start] = LF
                   /\ spans[i].end = L \/ input[spans[i].end + 1] = LF
            /\ \A i \in 1..(Len(spans) - 1) : spans[i].end < spans[i + 1].start
            /\ \A rc \in LazyLookups :
                   /\ ~LazyNsv_get(index, rc[1], rc[2]).panicked
                   /\ ~LazyNsv_get_raw(index, rc[1], rc[2]).panicked
    /\ op \in {"LazyNsv::get", "LazyNsv::get_raw"} => ~result.panicked

\* get_raw handed out the last span of an index of several rows, a span that
\* runs to the end of a buffer with no terminal LF
SpansWellFormedWitness ==
    /\ op = "LazyNsv::get_raw" /\ result.value.some
    /\ Len(index.rows) >= 2 /\ Len(SpansRowMajor(index.rows)) >= 2
    /\ args.row = Len(index.rows) - 1
    /\ args.col = Len(index.rows[Len(index.rows)]) - 1
    /\ index.rows[args.row + 1][args.col + 1].end = Len(input)
    /\ result.value.value = Slice(input, index.rows[args.row + 1][args.col + 1].start, Len(input))


\* offsets, in an encoded row that begins at offset base, of the bytes written
\* for the row's empty cells
RECURSIVE RowMarkers(_, _)
RowMarkers(row, base) ==
    IF row = <<>> THEN <<>>
    ELSE (IF Head(row) = <<>> THEN <<base>> ELSE <<>>)
         \o RowMarkers(Tail(row), base + Len(escape_bytes(Head(row))) + 1)

\* the same for the rows of a document encoded from offset base on
RECURSIVE DocMarkers(_, _)
DocMarkers(doc, base) ==
    IF doc = <<>> THEN <<>>
    ELSE RowMarkers(Head(doc), base)
         \o DocMarkers(Tail(doc), base + Len(encode_bytes(<<Head(doc)>>)))

HasEmptyCell(doc) == \E r \in 1..Len(doc) : \E c \in 1..Len(doc[r]) : doc[r][c] = <<>>

\* C27: check on encoder output flags exactly the empty-cell markers: the
\* warnings of check(encode_bytes(D)) are DanglingBackslash warnings, one per
\* empty cell of D in row-major order, each at the offset of that cell's lone
\* backslash; none is UnknownEscape or NoTerminalLf; and there is no warning at
\* all exactly when D has no empty cell.
CheckFlagsEmptyCells ==
    op = "check" /\ via = "encode_bytes" =>
        /\ ~result.panicked
        /\ input = encode_bytes(data)
        /\ [k \in 1..Len(result.value) |-> result.value[k].pos] = DocMarkers(data, 0)
        /\ \A k \in 1..Len(result.value) :
               /\ result.value[k].kind = DanglingBackslash
               /\ input[result.value[k].pos + 1] = BACKSLASH
               /\ input[result.value[k].pos + 2] = LF
        /\ result.value = <<>> <=> ~HasEmptyCell(data)

\* a document with two empty cells at least two lines apart and a cell that
\* holds a backslash and an LF
CheckFlagsWitness ==
    /\ op = "check" /\ via = "encode_bytes"
    /\ Len(result.value) = 2
    /\ result.value[1].line + 2 <= result.value[2].line
    /\ \E r \in 1..Len(data) : \E c \in 1..Len(data[r]) :
           Contains(data[r][c], BACKSLASH) /\ Contains(data[r][c], LF)


\* check(inp) holds no UnknownEscape and no DanglingBackslash warning
EscapeWarningFree(inp) ==
    LET warnings == check(inp)
    IN  /\ ~warnings.panicked
        /\ \A k \in 1..Len(warnings.value) : warnings.value[k].kind = NoTerminalLf

\* C28: warning-free input is canonically escaped: when check reports no
\* UnknownEscape and no DanglingBackslash for a buffer, every cell (r, c) of
\* decode_lazy's index has escape_bytes(get(r, c)) = get_raw(r, c).
WarningFreeIsCanonical ==
    /\ index.kind = "LazyNsv" /\ EscapeWarningFree(input) =>
           \A r \in 0..(LazyNsv_row_count(index) - 1) :
               \A c \in 0..(LazyNsv_col_count(index, r) - 1) :
                   LET got == LazyNsv_get(index, r, c)
                       raw == LazyNsv_get_raw(index, r, c)
                   IN  /\ ~got.panicked /\ ~raw.panicked
                       /\ got.value.some /\ raw.value.some
                       /\ escape_bytes(got.value.value) = raw.value.value
    /\ op = "LazyNsv::get" /\ EscapeWarningFree(input) /\ result.value.some =>
           Returned(Some(escape_bytes(result.value.value)))
               = LazyNsv_get_raw(index, args.row, args.col)

\* get returned a cell shorter than its raw bytes, which hold both escape
\* pairs, from a buffer check has nothing to say about but its missing final LF
WarningFreeWitness ==
    /\ op = "LazyNsv::get" /\ result.value.some
    /\ EscapeWarningFree(input) /\ check(input).value # <<>>
    /\ Contains(result.value.value, LF) /\ Contains(result.value.value, BACKSLASH)
    /\ Len(index.rows) >= 1


\* position j of the column list is the last one that names its column
LastOccurrence(cols, j) == \A k \in (j + 1)..Len(cols) : cols[k] # cols[j]

EmptyColumnsNoRows ==
    /\ op = "decode_bytes_projected" /\ args.columns = <<>> => result = Returned(<<>>)
    /\ op = "decode_lazy_projected" /\ args.columns = <<>> =>
           /\ result = Returned(ProjectedNsv(input, 0, 0, <<>>))
           /\ index.num_rows = 0 /\ index.spans = <<>>
    /\ op = "LazyNsv::project" /\ args.columns = <<>> =>
           result = Returned([r \in 1..Len(Decoded) |-> <<>>])

\* no columns asked of a buffer of several rows, one of them with cells
EmptyColumnsWitness ==
    /\ op = "decode_bytes_projected" /\ args.columns = <<>>
    /\ Len(Decoded) >= 2
    /\ \E r \in 1..Len(Decoded) : Decoded[r] # <<>>
    /\ result.value = <<>>

====
